---- MODULE Spec2Model ----
(***************************************************************************)
(* Model of the Syft contracts: the custom token, the constant-product     *)
(* liquidity pool (real-liquidity-pool) and the vault share ledger         *)
(* (soroban/src/vault.rs).  Amounts are signed IntBits-bit integers in     *)
(* place of i128; division truncates toward zero as in Rust.               *)
(***************************************************************************)
EXTENDS Integers, Sequences, FiniteSets, TLC

\* ------------------------------------------------------------------ bounds
IntBits == 31
InitialSupply == 2
MaxSteps == 3
MaxCalls == 2
MaxAmount == InitialSupply + 1
BalCap == InitialSupply + 1
MaxOut == InitialSupply - 1

\* ------------------------------------------------------- program constants
FEE_NUMERATOR == 997
FEE_DENOMINATOR == 1000

\* The largest and the smallest i128 of the model; written so that no
\* intermediate value leaves the range.
I128_MAX == (2^(IntBits - 2) - 1) * 2 + 1
I128_MIN == (0 - I128_MAX) - 1

Users == {"u1", "u2"}
POOL == "pool"
VAULT == "vault"
AMM == "amm"
NoAddress == "none"
Addresses == Users \cup {POOL, VAULT, AMM}
TOKEN_A == "TA"
TOKEN_B == "TB"
TOKEN_X == "TX"
Tokens == {TOKEN_A, TOKEN_B}

\* Arguments tried by the callers.
Amounts == {-3, -1, 0} \cup (1..MaxAmount)
Minimums == {-4, 2}
OverflowChecks == BOOLEAN

VARIABLES
    bal,        \* CustomToken balances: token -> address -> amount
    pool,       \* pool instance storage: initialized, reserve_a, reserve_b, total_shares
    lp,         \* pool instance storage ("LP", user) -> shares; absent keys are not in the domain
    config,     \* vault CONFIG: initialized, owner, assets, rules and the four references
    state,      \* vault STATE: total_shares, total_value, last_rebalance
    stake,      \* vault StakingPosition and LiquidityPosition entries by storage key:
                \* the st_token_amount or lp_tokens held, or NoStake
    position,   \* vault (POSITION, user) -> shares; absent keys are not in the domain
    last,       \* the last invocation: operation and error ("" on success)
    steps       \* invocations made so far

vars == <<bal, pool, lp, config, state, stake, position, last, steps>>

\* ------------------------------------------------------ checked arithmetic
Abs(x) == IF x < 0 THEN 0 - x ELSE x

InRange(x) == x >= I128_MIN /\ x <= I128_MAX

Some(x) == [some |-> TRUE, v |-> x]
None == [some |-> FALSE, v |-> 0]

\* Rust integer division: truncation toward zero.
TruncDiv(a, b) ==
    IF (a < 0) = (b < 0) THEN Abs(a) \div Abs(b) ELSE 0 - (Abs(a) \div Abs(b))

\* Whether a + b, a - b, a * b leave the i128 range, decided without
\* computing them.
AddOverflows(a, b) == (b > 0 /\ a > I128_MAX - b) \/ (b < 0 /\ a < I128_MIN - b)

SubOverflows(a, b) == (b < 0 /\ a > I128_MAX + b) \/ (b > 0 /\ a < I128_MIN + b)

MulOverflows(a, b) ==
    IF a = 0 \/ b = 0 THEN FALSE
    ELSE IF a = I128_MIN THEN b # 1
    ELSE IF b = I128_MIN THEN a # 1
    ELSE IF (a < 0) = (b < 0) THEN Abs(a) > I128_MAX \div Abs(b)
    ELSE Abs(a) > (I128_MAX \div Abs(b))
                    + (IF I128_MAX % Abs(b) = Abs(b) - 1 THEN 1 ELSE 0)

checked_mul(a, b) == IF MulOverflows(a, b) THEN None ELSE Some(a * b)

checked_add(a, b) == IF AddOverflows(a, b) THEN None ELSE Some(a + b)

checked_sub(a, b) == IF SubOverflows(a, b) THEN None ELSE Some(a - b)

checked_div(a, b) ==
    IF b = 0 \/ (a = I128_MIN /\ b = -1) THEN None ELSE Some(TruncDiv(a, b))

and_then_div(m, d) == IF m.some THEN checked_div(m.v, d) ELSE None

and_then_add(m, d) == IF m.some THEN checked_add(m.v, d) ELSE None

\* Two's-complement results of `+`, `-` and `*`.
wrapping_add(a, b) ==
    IF ~AddOverflows(a, b) THEN a + b
    ELSE IF b > 0 THEN (((a - I128_MAX) - 1) + b) + I128_MIN
    ELSE (((a - I128_MIN) + 1) + b) + I128_MAX

wrapping_sub(a, b) ==
    IF ~SubOverflows(a, b) THEN a - b
    ELSE IF b < 0 THEN (((a - I128_MAX) - 1) - b) + I128_MIN
    ELSE (((a - I128_MIN) + 1) - b) + I128_MAX

RECURSIVE wrapping_mul(_, _)
wrapping_mul(a, b) ==
    IF b = 0 THEN 0
    ELSE IF b = I128_MIN THEN (IF a % 2 = 0 THEN 0 ELSE I128_MIN)
    ELSE IF b < 0 THEN wrapping_sub(0, wrapping_mul(a, 0 - b))
    ELSE LET half == wrapping_mul(a, b \div 2)
             twice == wrapping_add(half, half)
         IN  IF b % 2 = 1 THEN wrapping_add(twice, a) ELSE twice

\* `+` and `-` on i128 outside a checked_ call: panics when the build has
\* overflow checks (oc), wraps otherwise.
plus(a, b, oc) == IF ~AddOverflows(a, b) \/ ~oc THEN Some(wrapping_add(a, b)) ELSE None

minus(a, b, oc) == IF ~SubOverflows(a, b) \/ ~oc THEN Some(wrapping_sub(a, b)) ELSE None

\* ------------------------------------------------------------ CustomToken
read_balance(b, t, addr) == b[t][addr]

\* CustomToken::transfer; the result is [ok, bal].
transfer(b, t, from, to, amount, oc) ==
    LET from_balance == read_balance(b, t, from) IN
    IF from_balance < amount THEN [ok |-> FALSE, bal |-> b]
    ELSE
        LET d == minus(from_balance, amount, oc) IN
        IF ~d.some THEN [ok |-> FALSE, bal |-> b]
        ELSE
            LET b1 == [b EXCEPT ![t][from] = d.v]
                to_balance == read_balance(b1, t, to)
                s == plus(to_balance, amount, oc)
            IN  IF ~s.some THEN [ok |-> FALSE, bal |-> b]
                ELSE [ok |-> TRUE, bal |-> [b1 EXCEPT ![t][to] = s.v]]

\* -------------------------------------------------------- RealLiquidityPool
PoolResult(err, p, l, b, r1, r2, r3) ==
    [err |-> err, pool |-> p, lp |-> l, bal |-> b, r1 |-> r1, r2 |-> r2, r3 |-> r3]

\* A panic: the invocation is rolled back, nothing is written.
PoolFail(err, p, l, b) == PoolResult(err, p, l, b, 0, 0, 0)

get_user_liquidity(l, user) == IF user \in DOMAIN l THEN l[user] ELSE 0

set_user_liquidity(l, user, shares) ==
    [u \in (DOMAIN l) \cup {user} |-> IF u = user THEN shares ELSE l[u]]

\* remove_user_liquidity that leaves the emptied entry in storage.
remove_user_liquidity_kept(l, user) == l

remove_user_liquidity(l, user) == [u \in (DOMAIN l) \ {user} |-> l[u]]

quote(amount_a, reserve_a, reserve_b) ==
    IF reserve_a = 0 \/ reserve_b = 0 THEN amount_a
    ELSE LET q == and_then_div(checked_mul(amount_a, reserve_b), reserve_a)
         IN  IF q.some THEN q.v ELSE 0

RECURSIVE sqrt_loop(_, _, _)
sqrt_loop(x, z, y) ==
    IF y < z THEN sqrt_loop(x, y, TruncDiv(TruncDiv(x, y) + y, 2)) ELSE z

\* sqrt with a single Babylonian step in place of the loop.
sqrt_one_step(x, oc) ==
    IF x = 0 THEN Some(0)
    ELSE LET x1 == plus(x, 1, oc)
         IN  IF ~x1.some THEN None
             ELSE LET y == TruncDiv(x1.v, 2) IN Some(IF y < x THEN y ELSE x)

\* Babylonian integer square root; x + 1 is an unchecked addition.
sqrt(x, oc) ==
    IF x = 0 THEN Some(0)
    ELSE LET x1 == plus(x, 1, oc)
         IN  IF ~x1.some THEN None ELSE Some(sqrt_loop(x, x, TruncDiv(x1.v, 2)))

\* The amounts add_liquidity takes: [err, a, b].
optimal_amounts(p, amount_a_desired, amount_b_desired, amount_a_min, amount_b_min) ==
    IF p.reserve_a = 0 /\ p.reserve_b = 0
    THEN [err |-> "", a |-> amount_a_desired, b |-> amount_b_desired]
    ELSE
        LET amount_b_optimal == quote(amount_a_desired, p.reserve_a, p.reserve_b) IN
        IF amount_b_optimal <= amount_b_desired
        THEN IF amount_b_optimal < amount_b_min
             THEN [err |-> "InsufficientAmount", a |-> 0, b |-> 0]
             ELSE [err |-> "", a |-> amount_a_desired, b |-> amount_b_optimal]
        ELSE
            LET amount_a_optimal == quote(amount_b_desired, p.reserve_b, p.reserve_a) IN
            IF amount_a_optimal > amount_a_desired \/ amount_a_optimal < amount_a_min
            THEN [err |-> "InsufficientAmount", a |-> 0, b |-> 0]
            ELSE [err |-> "", a |-> amount_a_optimal, b |-> amount_b_desired]

\* liquidity_minted taking the larger of the two ratios.
liquidity_minted_max(p, amount_a, amount_b, oc) ==
    IF p.total_shares = 0
    THEN LET product == checked_mul(amount_a, amount_b)
         IN  IF ~product.some THEN None ELSE sqrt(product.v, oc)
    ELSE
        LET liquidity_a == and_then_div(checked_mul(amount_a, p.total_shares), p.reserve_a)
            liquidity_b == and_then_div(checked_mul(amount_b, p.total_shares), p.reserve_b)
        IN  IF ~liquidity_a.some \/ ~liquidity_b.some THEN None
            ELSE IF liquidity_a.v > liquidity_b.v THEN liquidity_a ELSE liquidity_b

\* The shares add_liquidity mints for the amounts taken: Some(liquidity) or None.
liquidity_minted(p, amount_a, amount_b, oc) ==
    IF p.total_shares = 0
    THEN LET product == checked_mul(amount_a, amount_b)
         IN  IF ~product.some THEN None ELSE sqrt(product.v, oc)
    ELSE
        LET liquidity_a == and_then_div(checked_mul(amount_a, p.total_shares), p.reserve_a)
            liquidity_b == and_then_div(checked_mul(amount_b, p.total_shares), p.reserve_b)
        IN  IF ~liquidity_a.some \/ ~liquidity_b.some THEN None
            ELSE IF liquidity_a.v < liquidity_b.v THEN liquidity_a ELSE liquidity_b

add_liquidity(p, l, b, auth, oc, user, amount_a_desired, amount_b_desired, amount_a_min, amount_b_min) ==
    IF ~auth THEN PoolFail("Unauthorized", p, l, b)
    ELSE IF ~p.initialized THEN PoolFail("NotInitialized", p, l, b)
    ELSE
    LET am == optimal_amounts(p, amount_a_desired, amount_b_desired, amount_a_min, amount_b_min) IN
    IF am.err # "" THEN PoolFail(am.err, p, l, b)
    ELSE
    LET liquidity == liquidity_minted(p, am.a, am.b, oc) IN
    IF ~liquidity.some THEN PoolFail("InsufficientAmount", p, l, b)
    ELSE IF liquidity.v <= 0 THEN PoolFail("InsufficientLiquidity", p, l, b)
    ELSE
    LET t1 == transfer(b, p.token_a, user, POOL, am.a, oc)
        t2 == transfer(t1.bal, p.token_b, user, POOL, am.b, oc)
        new_reserve_a == plus(p.reserve_a, am.a, oc)
        new_reserve_b == plus(p.reserve_b, am.b, oc)
        new_total_shares == plus(p.total_shares, liquidity.v, oc)
        new_user_shares == plus(get_user_liquidity(l, user), liquidity.v, oc)
    IN
    IF ~t1.ok \/ ~t2.ok THEN PoolFail("TokenPanic", p, l, b)
    ELSE IF ~new_reserve_a.some \/ ~new_reserve_b.some \/ ~new_total_shares.some
            \/ ~new_user_shares.some
    THEN PoolFail("Overflow", p, l, b)
    ELSE PoolResult("",
            [p EXCEPT !.reserve_a = new_reserve_a.v, !.reserve_b = new_reserve_b.v,
                      !.total_shares = new_total_shares.v],
            set_user_liquidity(l, user, new_user_shares.v),
            t2.bal, liquidity.v, am.a, am.b)

\* remove_liquidity that does not store the reduced total_shares.
remove_liquidity_shares_kept(p, l, b, auth, oc, user, liquidity, amount_a_min, amount_b_min) ==
    IF ~auth THEN PoolFail("Unauthorized", p, l, b)
    ELSE IF liquidity <= 0 THEN PoolFail("InsufficientLiquidity", p, l, b)
    ELSE IF ~p.initialized THEN PoolFail("NotInitialized", p, l, b)
    ELSE
    LET user_shares == get_user_liquidity(l, user) IN
    IF user_shares < liquidity THEN PoolFail("InsufficientLiquidity", p, l, b)
    ELSE
    LET amount_a == and_then_div(checked_mul(liquidity, p.reserve_a), p.total_shares)
        amount_b == and_then_div(checked_mul(liquidity, p.reserve_b), p.total_shares)
    IN
    IF ~amount_a.some \/ ~amount_b.some THEN PoolFail("InsufficientAmount", p, l, b)
    ELSE IF amount_a.v < amount_a_min \/ amount_b.v < amount_b_min
    THEN PoolFail("SlippageExceeded", p, l, b)
    ELSE
    LET t1 == transfer(b, p.token_a, POOL, user, amount_a.v, oc)
        t2 == transfer(t1.bal, p.token_b, POOL, user, amount_b.v, oc)
        new_reserve_a == minus(p.reserve_a, amount_a.v, oc)
        new_reserve_b == minus(p.reserve_b, amount_b.v, oc)
        new_total_shares == minus(p.total_shares, liquidity, oc)
        new_user_shares == minus(user_shares, liquidity, oc)
    IN
    IF ~t1.ok \/ ~t2.ok THEN PoolFail("TokenPanic", p, l, b)
    ELSE IF ~new_reserve_a.some \/ ~new_reserve_b.some \/ ~new_total_shares.some
            \/ ~new_user_shares.some
    THEN PoolFail("Overflow", p, l, b)
    ELSE PoolResult("",
            [p EXCEPT !.reserve_a = new_reserve_a.v, !.reserve_b = new_reserve_b.v,
                      !.total_shares = p.total_shares],
            IF new_user_shares.v > 0 THEN set_user_liquidity(l, user, new_user_shares.v)
            ELSE remove_user_liquidity(l, user),
            t2.bal, amount_a.v, amount_b.v, 0)

remove_liquidity(p, l, b, auth, oc, user, liquidity, amount_a_min, amount_b_min) ==
    IF ~auth THEN PoolFail("Unauthorized", p, l, b)
    ELSE IF liquidity <= 0 THEN PoolFail("InsufficientLiquidity", p, l, b)
    ELSE IF ~p.initialized THEN PoolFail("NotInitialized", p, l, b)
    ELSE
    LET user_shares == get_user_liquidity(l, user) IN
    IF user_shares < liquidity THEN PoolFail("InsufficientLiquidity", p, l, b)
    ELSE
    LET amount_a == and_then_div(checked_mul(liquidity, p.reserve_a), p.total_shares)
        amount_b == and_then_div(checked_mul(liquidity, p.reserve_b), p.total_shares)
    IN
    IF ~amount_a.some \/ ~amount_b.some THEN PoolFail("InsufficientAmount", p, l, b)
    ELSE IF amount_a.v < amount_a_min \/ amount_b.v < amount_b_min
    THEN PoolFail("SlippageExceeded", p, l, b)
    ELSE
    LET t1 == transfer(b, p.token_a, POOL, user, amount_a.v, oc)
        t2 == transfer(t1.bal, p.token_b, POOL, user, amount_b.v, oc)
        new_reserve_a == minus(p.reserve_a, amount_a.v, oc)
        new_reserve_b == minus(p.reserve_b, amount_b.v, oc)
        new_total_shares == minus(p.total_shares, liquidity, oc)
        new_user_shares == minus(user_shares, liquidity, oc)
    IN
    IF ~t1.ok \/ ~t2.ok THEN PoolFail("TokenPanic", p, l, b)
    ELSE IF ~new_reserve_a.some \/ ~new_reserve_b.some \/ ~new_total_shares.some
            \/ ~new_user_shares.some
    THEN PoolFail("Overflow", p, l, b)
    ELSE PoolResult("",
            [p EXCEPT !.reserve_a = new_reserve_a.v, !.reserve_b = new_reserve_b.v,
                      !.total_shares = new_total_shares.v],
            IF new_user_shares.v > 0 THEN set_user_liquidity(l, user, new_user_shares.v)
            ELSE remove_user_liquidity(l, user),
            t2.bal, amount_a.v, amount_b.v, 0)

\* The output swap computes for amount_in: Some(amount_out), None on overflow.
swap_amount_out(amount_in, reserve_in, reserve_out) ==
    LET amount_in_with_fee == checked_mul(amount_in, FEE_NUMERATOR) IN
    IF ~amount_in_with_fee.some THEN None
    ELSE
    LET numerator == checked_mul(amount_in_with_fee.v, reserve_out)
        denominator == and_then_add(checked_mul(reserve_in, FEE_DENOMINATOR), amount_in_with_fee.v)
    IN  IF ~numerator.some \/ ~denominator.some THEN None
        ELSE checked_div(numerator.v, denominator.v)

\* The slippage test with the comparison turned around.
slippage_exceeded_reversed(amount_out, amount_out_min) == amount_out > amount_out_min

\* The slippage test of swap.
slippage_exceeded(amount_out, amount_out_min) == amount_out < amount_out_min

\* The liquidity test letting a swap take the whole reserve.
drains_reserve_strict(amount_out, reserve_out) == amount_out > reserve_out

\* The liquidity test of swap.
drains_reserve(amount_out, reserve_out) == amount_out >= reserve_out

swap(p, l, b, auth, oc, user, token_in, amount_in, amount_out_min) ==
    IF amount_in <= 0 THEN PoolFail("InsufficientAmount", p, l, b)
    ELSE IF ~p.initialized THEN PoolFail("NotInitialized", p, l, b)
    ELSE IF token_in # p.token_a /\ token_in # p.token_b THEN PoolFail("InvalidTokenPair", p, l, b)
    ELSE
    LET is_a_to_b == (token_in = p.token_a)
        token_out == IF is_a_to_b THEN p.token_b ELSE p.token_a
        reserve_in == IF is_a_to_b THEN p.reserve_a ELSE p.reserve_b
        reserve_out == IF is_a_to_b THEN p.reserve_b ELSE p.reserve_a
        amount_out == swap_amount_out(amount_in, reserve_in, reserve_out)
    IN
    IF ~amount_out.some THEN PoolFail("InsufficientAmount", p, l, b)
    ELSE IF slippage_exceeded(amount_out.v, amount_out_min) THEN PoolFail("SlippageExceeded", p, l, b)
    ELSE IF drains_reserve(amount_out.v, reserve_out) THEN PoolFail("InsufficientLiquidity", p, l, b)
    ELSE IF ~auth THEN PoolFail("Unauthorized", p, l, b)
    ELSE
    LET t1 == transfer(b, token_in, user, POOL, amount_in, oc)
        t2 == transfer(t1.bal, token_out, POOL, user, amount_out.v, oc)
        new_in == plus(reserve_in, amount_in, oc)
        new_out == minus(reserve_out, amount_out.v, oc)
    IN
    IF ~t1.ok \/ ~t2.ok THEN PoolFail("TokenPanic", p, l, b)
    ELSE IF ~new_in.some \/ ~new_out.some THEN PoolFail("Overflow", p, l, b)
    ELSE PoolResult("",
            IF is_a_to_b THEN [p EXCEPT !.reserve_a = new_in.v, !.reserve_b = new_out.v]
            ELSE [p EXCEPT !.reserve_a = new_out.v, !.reserve_b = new_in.v],
            l, t2.bal, amount_out.v, 0, 0)

\* ------------------------------------------------------------ VaultContract
NoStake == -1

\* The instance-storage keys a StakingPosition is read or written under:
\* symbol_short!("STAKE") and String "stake_position".
STAKE == "STAKE"
STAKE_POSITION == "stake_position"
LP_POSITION == "lp_position"
StakeKeys == {STAKE, STAKE_POSITION, LP_POSITION}
NoStakes == [k \in StakeKeys |-> NoStake]

NoConfig ==
    [initialized |-> FALSE, owner |-> NoAddress, assets |-> <<>>, rules |-> <<>>,
     router_address |-> NoAddress, staking_pool_address |-> NoAddress,
     factory_address |-> NoAddress,
     liquidity_pool_address |-> NoAddress]

VaultResult(err, st, pos, sk, b, r1, r2) ==
    [err |-> err, state |-> st, position |-> pos, stake |-> sk, bal |-> b, r1 |-> r1, r2 |-> r2]

\* An Err return or a panic: the invocation is rolled back.
VaultFail(err, st, pos, sk, b) == VaultResult(err, st, pos, sk, b, 0, 0)

\* get_position reading a position without the user in its key.
get_position_any_user(pos, user) ==
    IF DOMAIN pos = {} THEN 0 ELSE pos[CHOOSE u \in DOMAIN pos : TRUE]

get_position(pos, user) == IF user \in DOMAIN pos THEN pos[user] ELSE 0

\* set_position without the storage write.
set_position_not_stored(pos, user, shares) == pos

set_position(pos, user, shares) ==
    [u \in (DOMAIN pos) \cup {user} |-> IF u = user THEN shares ELSE pos[u]]

remove_position(pos, user) == [u \in (DOMAIN pos) \ {user} |-> pos[u]]

\* The router/pool collaborator's swap on behalf of the vault: on success the
\* vault gives amount_in of from_token and receives outcome.out of to_token.
swap_via_pool(b, from_token, to_token, amount_in, oc, outcome) ==
    IF outcome.kind # "ok" THEN [ok |-> FALSE, bal |-> b, out |-> 0]
    ELSE
        LET t1 == transfer(b, from_token, VAULT, AMM, amount_in, oc)
            t2 == transfer(t1.bal, to_token, AMM, VAULT, outcome.out, oc)
        IN  IF t1.ok /\ t2.ok THEN [ok |-> TRUE, bal |-> t2.bal, out |-> outcome.out]
            ELSE [ok |-> FALSE, bal |-> b, out |-> 0]

\* shares_to_mint that always mints one share per unit deposited.
shares_to_mint_at_par(st, final_amount) == Some(final_amount)

\* The shares a deposit of final_amount mints: Some(shares), None on overflow.
shares_to_mint(st, final_amount) ==
    IF st.total_shares = 0 THEN Some(final_amount)
    ELSE and_then_div(checked_mul(final_amount, st.total_shares), st.total_value)

deposit_with_token(cfg, st, pos, sk, b, auth, oc, user, amount, deposit_token, outcome) ==
    IF ~auth THEN VaultFail("Unauthorized", st, pos, sk, b)
    ELSE IF ~cfg.initialized THEN VaultFail("NotInitialized", st, pos, sk, b)
    ELSE IF amount <= 0 THEN VaultFail("InvalidAmount", st, pos, sk, b)
    ELSE IF cfg.assets = <<>> THEN VaultFail("InvalidConfiguration", st, pos, sk, b)
    ELSE
    LET base_token == cfg.assets[1]
        t1 == transfer(b, deposit_token, user, VAULT, amount, oc)
    IN
    IF ~t1.ok THEN VaultFail("TokenPanic", st, pos, sk, b)
    ELSE IF deposit_token # base_token /\ cfg.router_address = NoAddress
    THEN VaultFail("RouterNotSet", st, pos, sk, b)
    ELSE
    LET sw == IF deposit_token # base_token
              THEN swap_via_pool(t1.bal, deposit_token, base_token, amount, oc, outcome)
              ELSE [ok |-> TRUE, bal |-> t1.bal, out |-> amount]
    IN
    IF ~sw.ok THEN VaultFail("SwapFailed", st, pos, sk, b)
    ELSE
    LET final_amount == sw.out
        shares == shares_to_mint(st, final_amount)
    IN
    IF ~shares.some THEN VaultFail("InvalidAmount", st, pos, sk, b)
    ELSE
    LET new_total_shares == checked_add(st.total_shares, shares.v)
        new_total_value == checked_add(st.total_value, final_amount)
        new_position == checked_add(get_position(pos, user), shares.v)
    IN
    IF ~new_total_shares.some \/ ~new_total_value.some \/ ~new_position.some
    THEN VaultFail("InvalidAmount", st, pos, sk, b)
    ELSE VaultResult("",
            [st EXCEPT !.total_shares = new_total_shares.v, !.total_value = new_total_value.v],
            set_position(pos, user, new_position.v), sk, sw.bal, shares.v, final_amount)

\* VaultContract::deposit: deposit_with_token with the base asset.
deposit(cfg, st, pos, sk, b, auth, oc, user, amount, outcome) ==
    IF ~cfg.initialized THEN VaultFail("NotInitialized", st, pos, sk, b)
    ELSE IF cfg.assets = <<>> THEN VaultFail("InvalidConfiguration", st, pos, sk, b)
    ELSE deposit_with_token(cfg, st, pos, sk, b, auth, oc, user, amount, cfg.assets[1], outcome)

\* find_xlm_token taking the first configured asset.
find_xlm_token_first(cfg) == cfg.assets[1]

find_xlm_token(cfg) == cfg.assets[Len(cfg.assets)]

\* The staking collaborator's unstake: on success the vault receives
\* unstake.tokens of the base asset; [ok, stake, bal].
liquidate_all_positions(cfg, sk, b, oc, unstake) ==
    IF cfg.staking_pool_address # NoAddress /\ sk[STAKE] # NoStake
    THEN LET t == transfer(b, cfg.assets[1], AMM, VAULT, unstake.tokens, oc)
         IN  IF unstake.ok /\ t.ok THEN [stake |-> [sk EXCEPT ![STAKE] = NoStake], bal |-> t.bal]
             ELSE [stake |-> sk, bal |-> b]
    ELSE [stake |-> sk, bal |-> b]

\* Assets i..Len(assets) of the loop in swap_all_assets_to_xlm; outcomes[i] is
\* what pool discovery and the swap do for asset i.  [ok, bal, total].
RECURSIVE swap_assets_from(_, _, _, _, _, _, _)
swap_assets_from(cfg, b, xlm_token, i, total_xlm_received, oc, outcomes) ==
    IF i > Len(cfg.assets) THEN [ok |-> TRUE, bal |-> b]
    ELSE
    LET asset == cfg.assets[i]
        asset_balance == read_balance(b, asset, VAULT)
    IN
    IF asset = xlm_token \/ asset_balance <= 0 \/ outcomes[i].kind = "no_pool"
    THEN swap_assets_from(cfg, b, xlm_token, i + 1, total_xlm_received, oc, outcomes)
    ELSE
    LET sw == swap_via_pool(b, asset, xlm_token, asset_balance, oc, outcomes[i]) IN
    IF ~sw.ok
    THEN swap_assets_from(cfg, b, xlm_token, i + 1, total_xlm_received, oc, outcomes)
    ELSE
    LET total == checked_add(total_xlm_received, sw.out) IN
    IF ~total.some THEN [ok |-> FALSE, bal |-> b]
    ELSE swap_assets_from(cfg, sw.bal, xlm_token, i + 1, total.v, oc, outcomes)

\* swap_all_assets_to_xlm giving up on the first asset it cannot swap.
swap_all_assets_to_xlm_fatal(cfg, b, xlm_token, oc, outcomes) ==
    IF \E k \in 1..Len(cfg.assets) :
          /\ cfg.assets[k] # xlm_token
          /\ read_balance(b, cfg.assets[k], VAULT) > 0
          /\ outcomes[k].kind # "ok"
    THEN [ok |-> FALSE, bal |-> b]
    ELSE swap_assets_from(cfg, b, xlm_token, 1, 0, oc, outcomes)

swap_all_assets_to_xlm(cfg, b, xlm_token, oc, outcomes) ==
    swap_assets_from(cfg, b, xlm_token, 1, 0, oc, outcomes)

\* The payout that is the entitlement whatever was realized.
actual_amount_paid_in_full(st, shares, amount, final_xlm_balance) == Some(amount)

\* The payout withdraw computes from the realized balance: Some(actual_amount).
actual_amount_paid(st, shares, amount, final_xlm_balance) ==
    IF final_xlm_balance < amount
    THEN and_then_div(checked_mul(final_xlm_balance, shares), st.total_shares)
    ELSE Some(amount)

\* withdraw that takes the theoretical entitlement, not the amount paid, from
\* total_value.
withdraw_entitlement_accounted(cfg, st, pos, sk, b, auth, oc, user, shares, unstake, outcomes) ==
    IF ~auth THEN VaultFail("Unauthorized", st, pos, sk, b)
    ELSE IF ~cfg.initialized THEN VaultFail("NotInitialized", st, pos, sk, b)
    ELSE IF shares <= 0 THEN VaultFail("InvalidAmount", st, pos, sk, b)
    ELSE IF get_position(pos, user) < shares THEN VaultFail("InsufficientShares", st, pos, sk, b)
    ELSE IF st.total_shares = 0 THEN VaultFail("InvalidAmount", st, pos, sk, b)
    ELSE
    LET amount == and_then_div(checked_mul(shares, st.total_value), st.total_shares) IN
    IF ~amount.some THEN VaultFail("InvalidAmount", st, pos, sk, b)
    ELSE IF cfg.assets = <<>> THEN VaultFail("InvalidConfiguration", st, pos, sk, b)
    ELSE
    LET xlm_token == find_xlm_token(cfg)
        liq == liquidate_all_positions(cfg, sk, b, oc, unstake)
        sw == swap_all_assets_to_xlm(cfg, liq.bal, xlm_token, oc, outcomes)
    IN
    IF ~sw.ok THEN VaultFail("InvalidAmount", st, pos, sk, b)
    ELSE
    LET final_xlm_balance == read_balance(sw.bal, xlm_token, VAULT)
        actual_amount == actual_amount_paid(st, shares, amount.v, final_xlm_balance)
    IN
    IF ~actual_amount.some THEN VaultFail("InvalidAmount", st, pos, sk, b)
    ELSE IF final_xlm_balance < actual_amount.v THEN VaultFail("InsufficientBalance", st, pos, sk, b)
    ELSE
    LET t == transfer(sw.bal, xlm_token, VAULT, user, actual_amount.v, oc)
        new_total_shares == checked_sub(st.total_shares, shares)
        new_total_value == checked_sub(st.total_value, amount.v)
        new_position == checked_sub(get_position(pos, user), shares)
    IN
    IF ~t.ok THEN VaultFail("TokenPanic", st, pos, sk, b)
    ELSE IF ~new_total_shares.some \/ ~new_total_value.some \/ ~new_position.some
    THEN VaultFail("InvalidAmount", st, pos, sk, b)
    ELSE VaultResult("",
            [st EXCEPT !.total_shares = new_total_shares.v, !.total_value = new_total_value.v],
            IF new_position.v = 0 THEN remove_position(pos, user)
            ELSE set_position(pos, user, new_position.v),
            liq.stake, t.bal, actual_amount.v, final_xlm_balance)

withdraw(cfg, st, pos, sk, b, auth, oc, user, shares, unstake, outcomes) ==
    IF ~auth THEN VaultFail("Unauthorized", st, pos, sk, b)
    ELSE IF ~cfg.initialized THEN VaultFail("NotInitialized", st, pos, sk, b)
    ELSE IF shares <= 0 THEN VaultFail("InvalidAmount", st, pos, sk, b)
    ELSE IF get_position(pos, user) < shares THEN VaultFail("InsufficientShares", st, pos, sk, b)
    ELSE IF st.total_shares = 0 THEN VaultFail("InvalidAmount", st, pos, sk, b)
    ELSE
    LET amount == and_then_div(checked_mul(shares, st.total_value), st.total_shares) IN
    IF ~amount.some THEN VaultFail("InvalidAmount", st, pos, sk, b)
    ELSE IF cfg.assets = <<>> THEN VaultFail("InvalidConfiguration", st, pos, sk, b)
    ELSE
    LET xlm_token == find_xlm_token(cfg)
        liq == liquidate_all_positions(cfg, sk, b, oc, unstake)
        sw == swap_all_assets_to_xlm(cfg, liq.bal, xlm_token, oc, outcomes)
    IN
    IF ~sw.ok THEN VaultFail("InvalidAmount", st, pos, sk, b)
    ELSE
    LET final_xlm_balance == read_balance(sw.bal, xlm_token, VAULT)
        actual_amount == actual_amount_paid(st, shares, amount.v, final_xlm_balance)
    IN
    IF ~actual_amount.some THEN VaultFail("InvalidAmount", st, pos, sk, b)
    ELSE IF final_xlm_balance < actual_amount.v THEN VaultFail("InsufficientBalance", st, pos, sk, b)
    ELSE
    LET t == transfer(sw.bal, xlm_token, VAULT, user, actual_amount.v, oc)
        new_total_shares == checked_sub(st.total_shares, shares)
        new_total_value == checked_sub(st.total_value, actual_amount.v)
        new_position == checked_sub(get_position(pos, user), shares)
    IN
    IF ~t.ok THEN VaultFail("TokenPanic", st, pos, sk, b)
    ELSE IF ~new_total_shares.some \/ ~new_total_value.some \/ ~new_position.some
    THEN VaultFail("InvalidAmount", st, pos, sk, b)
    ELSE VaultResult("",
            [st EXCEPT !.total_shares = new_total_shares.v, !.total_value = new_total_value.v],
            IF new_position.v = 0 THEN remove_position(pos, user)
            ELSE set_position(pos, user, new_position.v),
            liq.stake, t.bal, actual_amount.v, final_xlm_balance)

\* ------------------------------------------------------------------ actions
\* Balances explored stay within the cap (negative transfers can move them
\* without limit otherwise).
WithinCap(b) ==
    \A t \in Tokens : \A a \in Addresses :
        b[t][a] >= 0 - BalCap /\ b[t][a] <= 2 * InitialSupply + BalCap

\* A failed invocation is rolled back and leaves every contract as it was, so
\* whatever could follow it follows the state before it: scenarios are
\* explored up to their first failure.
Continues == last.err = ""

Invoke ==
    /\ Continues
    /\ steps < MaxSteps
    /\ steps' = steps + 1

PoolStep(op, r) ==
    /\ Invoke
    /\ WithinCap(r.bal)
    /\ pool' = r.pool
    /\ lp' = r.lp
    /\ bal' = r.bal
    /\ last' = [op |-> op, err |-> r.err]
    /\ UNCHANGED <<config, state, stake, position>>

TokenPairs == {<<TOKEN_A, TOKEN_B>>, <<TOKEN_B, TOKEN_A>>}

pool_initialize_again(p, token_a, token_b) ==
    [err |-> "",
     pool |-> [initialized |-> TRUE, token_a |-> token_a, token_b |-> token_b,
               reserve_a |-> 0, reserve_b |-> 0, total_shares |-> 0]]

\* RealLiquidityPool::initialize; [err, pool].
pool_initialize(p, token_a, token_b) ==
    IF p.initialized THEN [err |-> "AlreadyInitialized", pool |-> p]
    ELSE [err |-> "",
          pool |-> [initialized |-> TRUE, token_a |-> token_a, token_b |-> token_b,
                    reserve_a |-> 0, reserve_b |-> 0, total_shares |-> 0]]

\* RealLiquidityPool::get_pool_info
get_pool_info(p) ==
    IF ~p.initialized THEN [err |-> "NotInitialized"]
    ELSE [err |-> "", token_a |-> p.token_a, token_b |-> p.token_b,
          reserve_a |-> p.reserve_a, reserve_b |-> p.reserve_b,
          total_shares |-> p.total_shares]

\* RealLiquidityPool::initialize. The two tokens are alike, so a pool is
\* deployed with them in one order; a later call names them in either.
PoolInitialize ==
    \E pair \in TokenPairs :
        LET r == pool_initialize(pool, pair[1], pair[2])
        IN  /\ Continues
            /\ IF pool.initialized THEN TRUE ELSE pair = <<TOKEN_A, TOKEN_B>>
            /\ pool' = r.pool
            /\ last' = [op |-> "initialize", err |-> r.err]
            /\ UNCHANGED <<bal, lp, config, state, stake, position, steps>>

AddLiquidity ==
    \E auth \in BOOLEAN, oc \in OverflowChecks, user \in Users,
       amount_a_desired \in Amounts, amount_b_desired \in Amounts,
       amount_a_min \in Minimums, amount_b_min \in Minimums :
        /\ IF auth THEN TRUE ELSE <<user, amount_a_desired, amount_b_desired, amount_a_min, amount_b_min>>
                    = <<"u1", 1, 1, 2, 2>>
        /\ PoolStep("add_liquidity",
                 add_liquidity(pool, lp, bal, auth, oc, user, amount_a_desired,
                               amount_b_desired, amount_a_min, amount_b_min))

RemoveLiquidity ==
    \E auth \in BOOLEAN, oc \in OverflowChecks, user \in Users, liquidity \in Amounts,
       amount_a_min \in Minimums, amount_b_min \in Minimums :
        /\ IF auth THEN TRUE ELSE <<user, liquidity, amount_a_min, amount_b_min>> = <<"u1", 1, 2, 2>>
        /\ PoolStep("remove_liquidity",
                 remove_liquidity(pool, lp, bal, auth, oc, user, liquidity,
                                  amount_a_min, amount_b_min))

Swap ==
    \E auth \in BOOLEAN, oc \in OverflowChecks, user \in Users,
       token_in \in {TOKEN_A, TOKEN_B, TOKEN_X},
       amount_in \in Amounts, amount_out_min \in Minimums :
        /\ IF auth THEN TRUE ELSE <<user, token_in, amount_in, amount_out_min>> = <<"u1", TOKEN_A, 1, -4>>
        /\ PoolStep("swap", swap(pool, lp, bal, auth, oc, user, token_in, amount_in, amount_out_min))

Init ==
    /\ bal = [t \in Tokens |-> [a \in Addresses |->
                IF a \in Users THEN InitialSupply ELSE IF a = AMM THEN 2 * InitialSupply ELSE 0]]
    /\ pool = [initialized |-> FALSE, token_a |-> NoAddress, token_b |-> NoAddress,
                reserve_a |-> 0, reserve_b |-> 0, total_shares |-> 0]
    /\ lp = [u \in {} |-> 0]
    /\ config = NoConfig
    /\ state = [total_shares |-> 0, total_value |-> 0, last_rebalance |-> 0]
    /\ stake = NoStakes
    /\ position = [u \in {} |-> 0]
    /\ last = [op |-> "deploy", err |-> ""]
    /\ steps = 0

NextPool == PoolInitialize \/ AddLiquidity \/ RemoveLiquidity \/ Swap

SpecPool == Init /\ [][NextPool]_vars

\* The pool over call sequences of at most MaxCalls invocations.
NextPoolShort ==
    \/ steps < MaxCalls /\ PoolInitialize
    \/ steps < MaxCalls /\ AddLiquidity
    \/ steps < MaxCalls /\ RemoveLiquidity
    \/ steps < MaxCalls /\ Swap

SpecPoolShort == Init /\ [][NextPoolShort]_vars

\* ----------------------------------------- pool with direct token transfers
token_transfer_overdrawn(b, auth, oc, t, from, to, amount) ==
    IF ~auth THEN [err |-> "Unauthorized", bal |-> b]
    ELSE [err |-> "",
          bal |-> [b EXCEPT ![t][from] = wrapping_sub(@, amount),
                            ![t][to] = wrapping_add(@, amount)]]

\* CustomToken::transfer invoked by a holder: [err, bal].
token_transfer(b, auth, oc, t, from, to, amount) ==
    IF ~auth THEN [err |-> "Unauthorized", bal |-> b]
    ELSE LET r == transfer(b, t, from, to, amount, oc)
         IN  IF r.ok THEN [err |-> "", bal |-> r.bal] ELSE [err |-> "TokenPanic", bal |-> b]

\* A holder sends tokens to the pool's address or to the other holder.
TokenTransfer ==
    \E auth \in BOOLEAN, oc \in OverflowChecks, t \in Tokens, from \in Users,
       to \in Users \cup {POOL}, amount \in Amounts :
        /\ to # from
        /\ IF auth THEN TRUE ELSE <<t, from, to, amount>> = <<TOKEN_A, "u1", POOL, 1>>
        /\ LET r == token_transfer(bal, auth, oc, t, from, to, amount) IN
            /\ Invoke
            /\ WithinCap(r.bal)
            /\ bal' = r.bal
            /\ last' = [op |-> "transfer", err |-> r.err]
        /\ UNCHANGED <<pool, lp, config, state, stake, position>>

\* The pool after initialize and u1's first provision
\* add_liquidity(u1, -2, -3, -4, -4).
Provisioned ==
    add_liquidity([initialized |-> TRUE, token_a |-> TOKEN_A, token_b |-> TOKEN_B,
                reserve_a |-> 0, reserve_b |-> 0, total_shares |-> 0],
                  [u \in {} |-> 0],
                  [t \in Tokens |-> [a \in Addresses |->
                      IF a \in Users THEN InitialSupply ELSE IF a = AMM THEN 2 * InitialSupply ELSE 0]],
                  TRUE, TRUE, "u1", -2, -3, -4, -4)

InitProvisioned ==
    /\ bal = Provisioned.bal
    /\ pool = Provisioned.pool
    /\ lp = Provisioned.lp
    /\ config = NoConfig
    /\ state = [total_shares |-> 0, total_value |-> 0, last_rebalance |-> 0]
    /\ stake = NoStakes
    /\ position = [u \in {} |-> 0]
    /\ last = [op |-> "add_liquidity", err |-> Provisioned.err]
    /\ steps = 1

NextPoolTransfer == PoolInitialize \/ AddLiquidity \/ RemoveLiquidity \/ Swap \/ TokenTransfer

SpecPoolTransfer == InitProvisioned /\ [][NextPoolTransfer]_vars

\* ------------------------------------------------- the token on its own
Holders == Users \cup {POOL}

\* Amounts near the largest i128 beside the small ones.
TokenAmounts == {-1, 0, 1, InitialSupply, I128_MAX - 1, I128_MAX}

\* CustomToken::mint; [err, bal].
mint(b, auth, oc, t, to, amount) ==
    IF ~auth THEN [err |-> "Unauthorized", bal |-> b]
    ELSE LET s == plus(read_balance(b, t, to), amount, oc)
         IN  IF ~s.some THEN [err |-> "TokenPanic", bal |-> b]
             ELSE [err |-> "", bal |-> [b EXCEPT ![t][to] = s.v]]

TokenStep(op, r) ==
    /\ Invoke
    /\ bal' = r.bal
    /\ last' = [op |-> op, err |-> r.err]
    /\ UNCHANGED <<pool, lp, config, state, stake, position>>

\* The admin mints, or somebody else tries to.
Mint ==
    \E auth \in BOOLEAN, oc \in OverflowChecks, to \in Holders, amount \in TokenAmounts :
        /\ IF auth THEN TRUE ELSE <<to, amount>> = <<"u1", 1>>
        /\ TokenStep("mint", mint(bal, auth, oc, TOKEN_A, to, amount))

\* A holder sends tokens to any holder, itself included.
Transfer ==
    \E auth \in BOOLEAN, oc \in OverflowChecks, from \in Holders, to \in Holders,
       amount \in TokenAmounts :
        /\ IF auth THEN TRUE ELSE <<from, to, amount>> = <<"u1", "u2", 1>>
        /\ TokenStep("transfer", token_transfer(bal, auth, oc, TOKEN_A, from, to, amount))

NextToken ==
    \/ steps < MaxCalls /\ Mint
    \/ steps < MaxCalls /\ Transfer

SpecToken == Init /\ [][NextToken]_vars

\* ------------------------------------------- the pool with large amounts
\* Amounts up to the largest i128.
LargeAmounts == {1, InitialSupply, I128_MAX \div 2, I128_MAX}

\* Two holders whom the token's admin has minted the largest amount of
\* either token, before a pool that is initialized and empty.
InitLarge ==
    /\ bal = [t \in Tokens |-> [a \in Addresses |-> IF a \in Users THEN I128_MAX ELSE 0]]
    /\ pool = [initialized |-> TRUE, token_a |-> TOKEN_A, token_b |-> TOKEN_B,
                reserve_a |-> 0, reserve_b |-> 0, total_shares |-> 0]
    /\ lp = [u \in {} |-> 0]
    /\ config = NoConfig
    /\ state = [total_shares |-> 0, total_value |-> 0, last_rebalance |-> 0]
    /\ stake = NoStakes
    /\ position = [u \in {} |-> 0]
    /\ last = [op |-> "initialize", err |-> ""]
    /\ steps = 0

LargeStep(op, r) ==
    /\ Invoke
    /\ pool' = r.pool
    /\ lp' = r.lp
    /\ bal' = r.bal
    /\ last' = [op |-> op, err |-> r.err]
    /\ UNCHANGED <<config, state, stake, position>>

AddLiquidityLarge ==
    \E oc \in OverflowChecks, user \in Users, amount_a_desired \in LargeAmounts,
       amount_b_desired \in LargeAmounts :
        LargeStep("add_liquidity",
                  add_liquidity(pool, lp, bal, TRUE, oc, user, amount_a_desired,
                                amount_b_desired, 0, 0))

RemoveLiquidityLarge ==
    \E oc \in OverflowChecks, user \in Users, liquidity \in LargeAmounts :
        LargeStep("remove_liquidity", remove_liquidity(pool, lp, bal, TRUE, oc, user, liquidity, 0, 0))

SwapLarge ==
    \E oc \in OverflowChecks, user \in Users, token_in \in Tokens, amount_in \in LargeAmounts :
        LargeStep("swap", swap(pool, lp, bal, TRUE, oc, user, token_in, amount_in, 0))

NextPoolLarge == AddLiquidityLarge \/ RemoveLiquidityLarge \/ SwapLarge

SpecPoolLarge == InitLarge /\ [][NextPoolLarge]_vars

\* ------------------------------------------------------------ vault actions
AssetLists == {<<>>, <<TOKEN_A>>, <<TOKEN_A, TOKEN_B>>}

SwapOutcomes ==
    {[kind |-> "no_pool", out |-> 0], [kind |-> "fail", out |-> 0]}
        \cup {[kind |-> "ok", out |-> o] : o \in 0..MaxOut}

UnstakeOutcomes == {[ok |-> FALSE, tokens |-> 0]} \cup {[ok |-> TRUE, tokens |-> o] : o \in 0..MaxOut}

NoOutcome == [kind |-> "no_pool", out |-> 0]

VaultStep(op, r) ==
    /\ Invoke
    /\ WithinCap(r.bal)
    /\ state' = r.state
    /\ position' = r.position
    /\ stake' = r.stake
    /\ bal' = r.bal
    /\ last' = [op |-> op, err |-> r.err]
    /\ UNCHANGED <<pool, lp, config>>

\* A configuration that names its assets, rules and staking pool.
Configuration(assets, rules, staking_pool) ==
    [initialized |-> TRUE, owner |-> "u1", assets |-> assets, rules |-> rules,
     router_address |-> IF Len(assets) > 1 THEN AMM ELSE NoAddress,
     staking_pool_address |-> staking_pool,
     factory_address |-> NoAddress,
     liquidity_pool_address |-> NoAddress]

initialize_over_existing(cfg, st, new_config) ==
    IF new_config.assets = <<>>
    THEN [err |-> "InvalidConfiguration", config |-> cfg, state |-> st]
    ELSE [err |-> "", config |-> new_config,
          state |-> [total_shares |-> 0, total_value |-> 0, last_rebalance |-> 0]]

\* VaultContract::initialize; [err, config, state].
initialize(cfg, st, new_config) ==
    IF cfg.initialized THEN [err |-> "AlreadyInitialized", config |-> cfg, state |-> st]
    ELSE IF new_config.assets = <<>>
    THEN [err |-> "InvalidConfiguration", config |-> cfg, state |-> st]
    ELSE [err |-> "", config |-> new_config,
          state |-> [total_shares |-> 0, total_value |-> 0, last_rebalance |-> 0]]

\* VaultContract::initialize
VaultInitialize ==
    \E assets \in AssetLists :
        LET r == initialize(config, state, Configuration(assets, <<>>, NoAddress))
        IN  /\ Continues
            /\ config' = r.config
            /\ state' = r.state
            /\ last' = [op |-> "vault_initialize", err |-> r.err]
            /\ UNCHANGED <<bal, pool, lp, stake, position, steps>>

Deposit ==
    \E auth \in BOOLEAN, oc \in OverflowChecks, user \in Users, amount \in Amounts :
        /\ IF auth THEN TRUE ELSE <<user, amount>> = <<"u1", 1>>
        /\ VaultStep("deposit",
                     deposit(config, state, position, stake, bal, auth, oc, user, amount, NoOutcome))

DepositWithToken ==
    \E auth \in BOOLEAN, oc \in OverflowChecks, user \in Users, amount \in Amounts,
       deposit_token \in Tokens, outcome \in SwapOutcomes :
        /\ IF auth THEN TRUE ELSE <<user, amount, deposit_token, outcome>> = <<"u1", 1, TOKEN_A, NoOutcome>>
        /\ VaultStep("deposit_with_token",
                     deposit_with_token(config, state, position, stake, bal, auth, oc, user,
                                        amount, deposit_token, outcome))

NoUnstake == [ok |-> FALSE, tokens |-> 0]

\* What pool discovery and the swap do for each configured asset; the exit
\* asset (the last one) is never swapped.
OutcomeVectors(n) ==
    IF n = 0 THEN {<<>>}
    ELSE {[i \in 1..n |-> IF i = n THEN NoOutcome ELSE f[i]] : f \in [1..(n - 1) -> SwapOutcomes]}

Withdraw ==
    \E auth \in BOOLEAN, oc \in OverflowChecks, user \in Users, shares \in Amounts,
       unstake \in (IF stake[STAKE] # NoStake THEN UnstakeOutcomes ELSE {NoUnstake}),
       outcomes \in OutcomeVectors(Len(config.assets)) :
        /\ IF auth THEN TRUE ELSE shares = 1
        /\ VaultStep("withdraw",
                     withdraw(config, state, position, stake, bal, auth, oc, user, shares,
                              unstake, outcomes))

NextVault == VaultInitialize \/ Deposit \/ DepositWithToken \/ Withdraw

SpecVault == Init /\ [][NextVault]_vars

\* The vault over call sequences of at most MaxCalls invocations.
NextVaultShort ==
    \/ steps < MaxCalls /\ VaultInitialize
    \/ steps < MaxCalls /\ Deposit
    \/ steps < MaxCalls /\ DepositWithToken
    \/ steps < MaxCalls /\ Withdraw

SpecVaultShort == Init /\ [][NextVaultShort]_vars

\* The vault with deposits of the base asset only.
NextVaultBase == VaultInitialize \/ Deposit \/ Withdraw

SpecVaultBase == Init /\ [][NextVaultBase]_vars

\* ------------------------------------------------------------ staking
FULL_ALLOCATION == 1000000

\* The staking collaborator's stake: on success the pool takes amount of the
\* staking token from the vault and hands back staked.st_tokens receipt
\* tokens; [ok, bal, st_tokens].
stake_tokens(b, staking_token, amount, oc, staked) ==
    LET t == transfer(b, staking_token, VAULT, AMM, amount, oc) IN
    IF staked.ok /\ t.ok THEN [ok |-> TRUE, bal |-> t.bal, st_tokens |-> staked.st_tokens]
    ELSE [ok |-> FALSE, bal |-> b, st_tokens |-> 0]

\* [err, stake, bal]
execute_stake_action(cfg, sk, b, rule, total_value, oc, staked) ==
    IF cfg.assets = <<>> THEN [err |-> "InvalidConfiguration", stake |-> sk, bal |-> b]
    ELSE
    LET stake_amount == and_then_div(checked_mul(total_value, rule.threshold), FULL_ALLOCATION) IN
    IF ~stake_amount.some THEN [err |-> "InvalidAmount", stake |-> sk, bal |-> b]
    ELSE IF stake_amount.v > total_value
    THEN [err |-> "InsufficientBalance", stake |-> sk, bal |-> b]
    ELSE
    LET staking_token == cfg.assets[1]
        balance == read_balance(b, staking_token, VAULT)
    IN
    IF stake_amount.v > balance THEN [err |-> "InsufficientBalance", stake |-> sk, bal |-> b]
    ELSE IF cfg.staking_pool_address = NoAddress
    THEN [err |-> "InvalidConfiguration", stake |-> sk, bal |-> b]
    ELSE
    LET staked_now == stake_tokens(b, staking_token, stake_amount.v, oc, staked) IN
    IF ~staked_now.ok THEN [err |-> "StakingFailed", stake |-> sk, bal |-> b]
    ELSE [err |-> "", stake |-> [sk EXCEPT ![STAKE_POSITION] = staked_now.st_tokens],
          bal |-> staked_now.bal]

\* The balance loop of execute_stake_only over assets i..Len(assets):
\* Some(actual_total_value).
RECURSIVE actual_total_value_from(_, _, _, _)
actual_total_value_from(cfg, b, i, actual_total_value) ==
    IF i > Len(cfg.assets) THEN Some(actual_total_value)
    ELSE LET next == checked_add(actual_total_value, read_balance(b, cfg.assets[i], VAULT)) IN
         IF ~next.some THEN None
         ELSE actual_total_value_from(cfg, b, i + 1, next.v)

\* The rule loop of execute_stake_only over rules i..Len(rules).
RECURSIVE stake_rules_from(_, _, _, _, _, _, _)
stake_rules_from(cfg, sk, b, i, total_value, oc, staked) ==
    IF i > Len(cfg.rules) THEN [err |-> "", stake |-> sk, bal |-> b]
    ELSE IF cfg.rules[i].action # "stake"
    THEN stake_rules_from(cfg, sk, b, i + 1, total_value, oc, staked)
    ELSE LET r == execute_stake_action(cfg, sk, b, cfg.rules[i], total_value, oc, staked) IN
         IF r.err # "" THEN r
         ELSE stake_rules_from(cfg, r.stake, r.bal, i + 1, total_value, oc, staked)

execute_stake_only(cfg, sk, b, oc, staked) ==
    IF ~cfg.initialized THEN [err |-> "NotInitialized", stake |-> sk, bal |-> b]
    ELSE
    LET actual_total_value == actual_total_value_from(cfg, b, 1, 0) IN
    IF ~actual_total_value.some THEN [err |-> "InvalidAmount", stake |-> sk, bal |-> b]
    ELSE IF actual_total_value.v = 0 THEN [err |-> "InsufficientBalance", stake |-> sk, bal |-> b]
    ELSE stake_rules_from(cfg, sk, b, 1, actual_total_value.v, oc, staked)

trigger_stake(cfg, st, pos, sk, b, oc, staked, timestamp) ==
    IF ~cfg.initialized THEN VaultFail("NotInitialized", st, pos, sk, b)
    ELSE
    LET r == execute_stake_only(cfg, sk, b, oc, staked) IN
    IF r.err # "" THEN VaultFail(r.err, st, pos, sk, b)
    ELSE VaultResult("", [st EXCEPT !.last_rebalance = timestamp], pos, r.stake, r.bal, 0, 0)

\* VaultContract::get_staking_position: [err, st_token_amount]
get_staking_position(sk) ==
    IF sk[STAKE_POSITION] = NoStake THEN [err |-> "NotInitialized", st_token_amount |-> 0]
    ELSE [err |-> "", st_token_amount |-> sk[STAKE_POSITION]]

\* VaultContract::has_staking_position
has_staking_position(sk) == sk[STAKE_POSITION] # NoStake

Thresholds == {FULL_ALLOCATION \div 2, FULL_ALLOCATION}

RuleLists ==
    {<<>>} \cup {<<[action |-> "stake", threshold |-> th, target_allocation |-> <<>>]>> :
                    th \in Thresholds}

StakeOutcomes ==
    {[ok |-> FALSE, st_tokens |-> 0]} \cup {[ok |-> TRUE, st_tokens |-> o] : o \in 1..InitialSupply}

Timestamps == 1..2

\* VaultContract::initialize with rules and a staking pool in the configuration
VaultInitializeRules ==
    \E assets \in AssetLists, rules \in RuleLists, staking_pool \in {NoAddress, AMM} :
        LET r == initialize(config, state, Configuration(assets, rules, staking_pool))
        IN  /\ Continues
            /\ config' = r.config
            /\ state' = r.state
            /\ last' = [op |-> "vault_initialize", err |-> r.err]
            /\ UNCHANGED <<bal, pool, lp, stake, position, steps>>

\* VaultContract::trigger_stake
TriggerStake ==
    \E oc \in OverflowChecks, staked \in StakeOutcomes, timestamp \in Timestamps :
        VaultStep("trigger_stake",
                  trigger_stake(config, state, position, stake, bal, oc, staked, timestamp))

NextStake == VaultInitializeRules \/ Deposit \/ TriggerStake \/ Withdraw

SpecStake == Init /\ [][NextStake]_vars

\* ------------------------------------------------------------ rebalance
MIN_SWAP_AMOUNT == 100
MIN_SWAP_THRESHOLD == 1000
MAX_SWAPS == 3
SLIPPAGE_NUMERATOR == 95
SLIPPAGE_DENOMINATOR == 100

\* `*` and abs() on i128 outside a checked_ call.
times(a, b, oc) == IF ~MulOverflows(a, b) \/ ~oc THEN Some(wrapping_mul(a, b)) ELSE None

abs(x, oc) == IF x # I128_MIN THEN Some(Abs(x)) ELSE IF oc THEN None ELSE Some(x)

\* One call made to a collaborator, in the order the calls are made.
Call(op, from_token, to_token, amount, min_amount_out) ==
    [op |-> op, from_token |-> from_token, to_token |-> to_token, amount |-> amount,
     min_amount_out |-> min_amount_out]

\* What a rebalance entry point returns and did: the error, the token
\* balances, the projected balances, the calls made, the plan steps recorded
\* and the swaps that went through.
RebalanceResult(err, b, current_balances, calls, plan_steps, swap_count) ==
    [err |-> err, bal |-> b, current_balances |-> current_balances, calls |-> calls,
     plan_steps |-> plan_steps, swap_count |-> swap_count]

\* The sum loop of the validation over entries i..Len: Some(total_allocation).
RECURSIVE total_allocation_from(_, _, _)
total_allocation_from(target_allocation, i, total_allocation) ==
    IF i > Len(target_allocation) THEN Some(total_allocation)
    ELSE LET next == checked_add(total_allocation, target_allocation[i]) IN
         IF ~next.some THEN None
         ELSE total_allocation_from(target_allocation, i + 1, next.v)

\* validate_target_allocation accepting every sum.
validate_target_allocation_any_sum(assets, target_allocation) ==
    IF Len(target_allocation) # Len(assets) THEN "InvalidConfiguration" ELSE ""

\* The validation every rebalance entry point starts with: "" when the
\* vector is accepted.
validate_target_allocation(assets, target_allocation) ==
    IF Len(target_allocation) # Len(assets) THEN "InvalidConfiguration"
    ELSE
    LET total_allocation == total_allocation_from(target_allocation, 1, 0) IN
    IF ~total_allocation.some THEN "InvalidConfiguration"
    ELSE IF total_allocation.v # FULL_ALLOCATION /\ total_allocation.v # 0
    THEN "InvalidConfiguration"
    ELSE ""

\* The loop reading each asset's vault balance and computing its target
\* amount, over assets i..Len: [err, current_balances, target_amounts, calls].
RECURSIVE target_amounts_from(_, _, _, _, _, _, _, _)
target_amounts_from(b, assets, target_allocation, total_value, i, current_balances, target_amounts, calls) ==
    IF i > Len(assets)
    THEN [err |-> "", current_balances |-> current_balances,
          target_amounts |-> target_amounts, calls |-> calls]
    ELSE
    LET current_balance == read_balance(b, assets[i], VAULT)
        read == Append(calls, Call("balance", assets[i], assets[i], 0, 0))
        target_amount == and_then_div(checked_mul(total_value, target_allocation[i]),
                                      FULL_ALLOCATION)
    IN
    IF ~target_amount.some
    THEN [err |-> "InvalidAmount", current_balances |-> Append(current_balances, current_balance),
          target_amounts |-> target_amounts, calls |-> read]
    ELSE target_amounts_from(b, assets, target_allocation, total_value, i + 1,
                             Append(current_balances, current_balance),
                             Append(target_amounts, target_amount.v), read)

\* An approval of any amount.
approve_router_any(calls, token_address, amount) ==
    [err |-> "", calls |-> Append(calls, Call("approve", token_address, token_address, amount, 0))]

\* token_client::approve_router: [err, calls].
approve_router(calls, token_address, amount) ==
    IF amount <= 0 THEN [err |-> "InvalidAmount", calls |-> calls]
    ELSE [err |-> "", calls |-> Append(calls, Call("approve", token_address, token_address, amount, 0))]

\* The router collaborator's swap on behalf of the vault: it pays the amount
\* it quoted, or the least the caller accepts; [ok, bal, amount_out].
swap_via_router(b, from_token, to_token, amount_in, min_amount_out, oc, outcome) ==
    IF outcome.kind # "ok" THEN [ok |-> FALSE, bal |-> b, amount_out |-> 0]
    ELSE
    LET amount_out == IF outcome.worst THEN min_amount_out ELSE amount_in
        t1 == transfer(b, from_token, VAULT, AMM, amount_in, oc)
        t2 == transfer(t1.bal, to_token, AMM, VAULT, amount_out, oc)
    IN  IF t1.ok /\ t2.ok THEN [ok |-> TRUE, bal |-> t2.bal, amount_out |-> amount_out]
        ELSE [ok |-> FALSE, bal |-> b, amount_out |-> 0]

\* The least accepted from a swap without the allowance for slippage.
min_amount_out_exact(x, oc) == Some(x)

\* (x * 95) / 100: Some(min_amount_out).
min_amount_out_of(x, oc) ==
    LET m == times(x, SLIPPAGE_NUMERATOR, oc) IN
    IF m.some THEN Some(TruncDiv(m.v, SLIPPAGE_DENOMINATOR)) ELSE None

\* The pool collaborator's quotes at the pool's price, taken as one to one:
\* Some(amount), None when the call fails.
calculate_swap_input(amount_out, outcome) ==
    IF outcome.kind = "calc_fail" THEN None ELSE Some(amount_out)

calculate_swap_output(amount_in, outcome) ==
    IF outcome.kind = "out_fail" THEN None ELSE Some(amount_in)

\* An overflowing `+`, `-`, `*` or abs() in a build with overflow checks.
Panicked(s) == [s EXCEPT !.err = "Panic"]

\* The projection left as it was read.
projection_stale(current_balances, i, j, amount_in, amount_out, oc) == Some(current_balances)

\* The projection after a swap of amount_in of asset j into amount_out of
\* asset i: Some(current_balances).
projection_after(current_balances, i, j, amount_in, amount_out, oc) ==
    LET source == minus(current_balances[j], amount_in, oc)
        dest == plus(current_balances[i], amount_out, oc)
    IN  IF source.some /\ dest.some
        THEN Some([current_balances EXCEPT ![j] = source.v, ![i] = dest.v])
        ELSE None

\* Where a matching loop goes after one pass through its body: it ends
\* with s, or goes on with s at deficit asset i and candidate source j.
Halt(s) == [halt |-> TRUE, s |-> s, i |-> 0, j |-> 0]

Goto(s, i, j) == [halt |-> FALSE, s |-> s, i |-> i, j |-> j]

\* An amount too small to be worth a swap.
negligible_never(amount, min_swap_amount) == FALSE

negligible(amount, min_swap_amount) == amount < min_swap_amount

\* The budget of force_rebalance_to_allocation never running out.
budget_never_spent(swap_count) == FALSE

\* Whether force_rebalance_to_allocation has used up its swaps.
budget_spent(swap_count) == swap_count >= MAX_SWAPS

\* A failed swap ending force_rebalance_to_allocation with the error.
skip_failed_swap_fatal(s, attempted, i, j) ==
    Halt([s EXCEPT !.err = "SwapFailed", !.calls = attempted])

\* A failed swap passed over by execute_rebalance_action.
propagate_swap_error_ignored(s, attempted, i, j) ==
    Goto([s EXCEPT !.calls = attempted], i, j + 1)

\* After a failed router swap of asset j into asset i: the unconstrained
\* executor returns the error, the budget-constrained one goes on with the
\* next candidate source.
propagate_swap_error(s, attempted, i, j) ==
    Halt([s EXCEPT !.err = "SwapFailed", !.calls = attempted])

skip_failed_swap(s, attempted, i, j) == Goto([s EXCEPT !.calls = attempted], i, j + 1)

\* The matching loops of execute_rebalance_action from deficit asset i and
\* candidate source j on (j = 0: the head of iteration i).  c holds assets,
\* target_amounts, oc and outcomes, the collaborators' answer for each
\* (deficit, source) pair; s is a RebalanceResult.
execute_swaps_pass(c, s, i, j) ==
    IF i > Len(c.assets) THEN Halt(s)
    ELSE
    LET asset == c.assets[i]
        current == s.current_balances[i]
        diff == minus(c.target_amounts[i], current, c.oc)
        magnitude == IF diff.some THEN abs(diff.v, c.oc) ELSE None
    IN
    IF ~magnitude.some THEN Halt(Panicked(s))
    ELSE IF negligible(magnitude.v, MIN_SWAP_AMOUNT) \/ diff.v <= 0 THEN Goto(s, i + 1, 0)
    ELSE IF j = 0 THEN Goto(s, i, 1)
    ELSE IF j > Len(c.assets) THEN Goto(s, i + 1, 0)
    ELSE IF j = i THEN Goto(s, i, j + 1)
    ELSE
    LET source_asset == c.assets[j]
        source_current == s.current_balances[j]
        source_target == c.target_amounts[j]
        excess == minus(source_current, source_target, c.oc)
        outcome == c.outcomes[i][j]
    IN
    IF ~(source_current > source_target) THEN Goto(s, i, j + 1)
    ELSE IF ~excess.some THEN Halt(Panicked(s))
    ELSE IF outcome.kind = "no_pool" THEN Halt([s EXCEPT !.err = "PoolNotFound"])
    ELSE
    LET quoted == calculate_swap_input(diff.v, outcome) IN
    IF ~quoted.some THEN Halt([s EXCEPT !.err = "SwapFailed"])
    ELSE
    LET amount_to_swap == IF quoted.v > excess.v THEN excess.v ELSE quoted.v IN
    IF negligible(amount_to_swap, MIN_SWAP_AMOUNT) THEN Goto(s, i, j + 1)
    ELSE
    LET expected_output == calculate_swap_output(amount_to_swap, outcome) IN
    IF ~expected_output.some THEN Halt([s EXCEPT !.err = "SwapFailed"])
    ELSE
    LET min_amount_out == min_amount_out_of(expected_output.v, c.oc) IN
    IF ~min_amount_out.some THEN Halt(Panicked(s))
    ELSE
    LET approved == approve_router(s.calls, source_asset, amount_to_swap) IN
    IF approved.err # "" THEN Halt([s EXCEPT !.err = approved.err])
    ELSE
    LET attempted == Append(approved.calls,
                            Call("swap", source_asset, asset, amount_to_swap, min_amount_out.v))
        sw == swap_via_router(s.bal, source_asset, asset, amount_to_swap, min_amount_out.v,
                              c.oc, outcome)
    IN
    IF ~sw.ok THEN propagate_swap_error(s, attempted, i, j)
    ELSE
    LET projected == projection_after(s.current_balances, i, j, amount_to_swap,
                                      sw.amount_out, c.oc)
    IN
    IF ~projected.some THEN Halt(Panicked([s EXCEPT !.calls = attempted, !.bal = sw.bal]))
    ELSE Goto(
            [s EXCEPT !.bal = sw.bal, !.current_balances = projected.v, !.calls = attempted,
                      !.swap_count = s.swap_count + 1],
            i + 1, 0)

\* The matching loops of execute_rebalance_action, pass after pass.
RECURSIVE execute_swaps_from(_, _, _, _)
execute_swaps_from(c, s, i, j) ==
    LET t == execute_swaps_pass(c, s, i, j) IN
    IF t.halt THEN t.s ELSE execute_swaps_from(c, t.s, t.i, t.j)

execute_rebalance_action(cfg, b, rule, assets, total_value, oc, outcomes) ==
    LET invalid == validate_target_allocation(assets, rule.target_allocation) IN
    IF invalid # "" THEN RebalanceResult(invalid, b, <<>>, <<>>, <<>>, 0)
    ELSE IF ~cfg.initialized THEN RebalanceResult("NotInitialized", b, <<>>, <<>>, <<>>, 0)
    ELSE IF cfg.router_address = NoAddress
    THEN RebalanceResult("InvalidConfiguration", b, <<>>, <<>>, <<>>, 0)
    ELSE
    LET p == target_amounts_from(b, assets, rule.target_allocation, total_value, 1,
                                 <<>>, <<>>, <<>>)
    IN
    IF p.err # "" THEN RebalanceResult(p.err, b, p.current_balances, p.calls, <<>>, 0)
    ELSE execute_swaps_from(
            [assets |-> assets, target_amounts |-> p.target_amounts, oc |-> oc,
             outcomes |-> outcomes],
            RebalanceResult("", b, p.current_balances, p.calls, <<>>, 0), 1, 0)

\* Whether a pool is registered for the source or for the deficit asset.
custom_pool_found(custom_pools, source_asset, asset) ==
    source_asset \in custom_pools \/ asset \in custom_pools

\* The matching loops of force_rebalance_to_allocation; c also holds
\* custom_pools, the tokens a pool is registered for.
force_swaps_pass(c, s, i, j) ==
    IF i > Len(c.assets) THEN Halt(s)
    ELSE IF j = 0 /\ budget_spent(s.swap_count) THEN Halt(s)
    ELSE
    LET asset == c.assets[i]
        current == s.current_balances[i]
        diff == minus(c.target_amounts[i], current, c.oc)
        magnitude == IF diff.some THEN abs(diff.v, c.oc) ELSE None
    IN
    IF ~magnitude.some THEN Halt(Panicked(s))
    ELSE IF negligible(magnitude.v, MIN_SWAP_THRESHOLD) \/ diff.v <= 0 THEN Goto(s, i + 1, 0)
    ELSE IF j = 0 THEN Goto(s, i, 1)
    ELSE IF j > Len(c.assets) THEN Goto(s, i + 1, 0)
    ELSE IF j = i THEN Goto(s, i, j + 1)
    ELSE
    LET source_asset == c.assets[j]
        source_current == s.current_balances[j]
        source_target == c.target_amounts[j]
        floor == plus(source_target, MIN_SWAP_THRESHOLD, c.oc)
        excess == minus(source_current, source_target, c.oc)
        outcome == c.outcomes[i][j]
    IN
    IF ~floor.some THEN Halt(Panicked(s))
    ELSE IF ~(source_current > floor.v) THEN Goto(s, i, j + 1)
    ELSE IF ~excess.some THEN Halt(Panicked(s))
    ELSE IF ~custom_pool_found(c.custom_pools, source_asset, asset)
    THEN Goto(s, i, j + 1)
    ELSE
    LET amount_to_swap == IF diff.v > excess.v THEN excess.v ELSE diff.v IN
    IF negligible(amount_to_swap, MIN_SWAP_THRESHOLD) THEN Goto(s, i, j + 1)
    ELSE
    LET min_amount_out == min_amount_out_of(amount_to_swap, c.oc) IN
    IF ~min_amount_out.some THEN Halt(Panicked(s))
    ELSE
    LET approved == approve_router(s.calls, source_asset, amount_to_swap) IN
    IF approved.err # "" THEN Halt([s EXCEPT !.err = approved.err])
    ELSE
    LET attempted == Append(approved.calls,
                            Call("swap", source_asset, asset, amount_to_swap, min_amount_out.v))
        sw == swap_via_router(s.bal, source_asset, asset, amount_to_swap, min_amount_out.v,
                              c.oc, outcome)
    IN
    IF ~sw.ok THEN skip_failed_swap(s, attempted, i, j)
    ELSE
    LET projected == projection_after(s.current_balances, i, j, amount_to_swap,
                                      sw.amount_out, c.oc)
    IN
    IF ~projected.some THEN Halt(Panicked([s EXCEPT !.calls = attempted, !.bal = sw.bal]))
    ELSE Goto(
            [s EXCEPT !.bal = sw.bal, !.current_balances = projected.v, !.calls = attempted,
                      !.swap_count = s.swap_count + 1],
            i + 1, 0)

\* The matching loops of force_rebalance_to_allocation, pass after pass.
RECURSIVE force_swaps_from(_, _, _, _)
force_swaps_from(c, s, i, j) ==
    LET t == force_swaps_pass(c, s, i, j) IN
    IF t.halt THEN t.s ELSE force_swaps_from(c, t.s, t.i, t.j)

force_rebalance_to_allocation(cfg, b, custom_pools, assets, target_allocation, total_value, oc, outcomes) ==
    LET invalid == validate_target_allocation(assets, target_allocation) IN
    IF invalid # "" THEN RebalanceResult(invalid, b, <<>>, <<>>, <<>>, 0)
    ELSE IF ~cfg.initialized THEN RebalanceResult("NotInitialized", b, <<>>, <<>>, <<>>, 0)
    ELSE IF cfg.router_address = NoAddress
    THEN RebalanceResult("InvalidConfiguration", b, <<>>, <<>>, <<>>, 0)
    ELSE
    LET p == target_amounts_from(b, assets, target_allocation, total_value, 1, <<>>, <<>>, <<>>)
    IN
    IF p.err # "" THEN RebalanceResult(p.err, b, p.current_balances, p.calls, <<>>, 0)
    ELSE force_swaps_from(
            [assets |-> assets, target_amounts |-> p.target_amounts, oc |-> oc,
             outcomes |-> outcomes, custom_pools |-> custom_pools],
            RebalanceResult("", b, p.current_balances, p.calls, <<>>, 0), 1, 0)

\* The matching loops of calculate_rebalance_plan.
plan_steps_pass(c, s, i, j) ==
    IF i > Len(c.assets) THEN Halt(s)
    ELSE
    LET asset == c.assets[i]
        current == s.current_balances[i]
        diff == minus(c.target_amounts[i], current, c.oc)
        magnitude == IF diff.some THEN abs(diff.v, c.oc) ELSE None
    IN
    IF ~magnitude.some THEN Halt(Panicked(s))
    ELSE IF negligible(magnitude.v, MIN_SWAP_THRESHOLD) \/ diff.v <= 0 THEN Goto(s, i + 1, 0)
    ELSE IF j = 0 THEN Goto(s, i, 1)
    ELSE IF j > Len(c.assets) THEN Goto(s, i + 1, 0)
    ELSE IF j = i THEN Goto(s, i, j + 1)
    ELSE
    LET source_asset == c.assets[j]
        source_current == s.current_balances[j]
        source_target == c.target_amounts[j]
        floor == plus(source_target, MIN_SWAP_THRESHOLD, c.oc)
        excess == minus(source_current, source_target, c.oc)
    IN
    IF ~floor.some THEN Halt(Panicked(s))
    ELSE IF ~(source_current > floor.v) THEN Goto(s, i, j + 1)
    ELSE IF ~excess.some THEN Halt(Panicked(s))
    ELSE IF ~custom_pool_found(c.custom_pools, source_asset, asset)
    THEN Goto(s, i, j + 1)
    ELSE
    LET amount_to_swap == IF diff.v > excess.v THEN excess.v ELSE diff.v IN
    IF negligible(amount_to_swap, MIN_SWAP_THRESHOLD) THEN Goto(s, i, j + 1)
    ELSE
    LET min_amount_out == min_amount_out_of(amount_to_swap, c.oc) IN
    IF ~min_amount_out.some THEN Halt(Panicked(s))
    ELSE
    LET step == [from_token |-> source_asset, to_token |-> asset, amount_in |-> amount_to_swap,
                 min_amount_out |-> min_amount_out.v]
        projected == projection_after(s.current_balances, i, j, amount_to_swap,
                                      min_amount_out.v, c.oc)
    IN
    IF ~projected.some THEN Halt(Panicked([s EXCEPT !.plan_steps = Append(s.plan_steps, step)]))
    ELSE Goto(
            [s EXCEPT !.current_balances = projected.v,
                      !.plan_steps = Append(s.plan_steps, step)],
            i + 1, 0)

\* The matching loops of calculate_rebalance_plan, pass after pass.
RECURSIVE plan_steps_from(_, _, _, _)
plan_steps_from(c, s, i, j) ==
    LET t == plan_steps_pass(c, s, i, j) IN
    IF t.halt THEN t.s ELSE plan_steps_from(c, t.s, t.i, t.j)

calculate_rebalance_plan(b, custom_pools, assets, target_allocation, total_value, oc) ==
    LET invalid == validate_target_allocation(assets, target_allocation) IN
    IF invalid # "" THEN RebalanceResult(invalid, b, <<>>, <<>>, <<>>, 0)
    ELSE
    LET p == target_amounts_from(b, assets, target_allocation, total_value, 1, <<>>, <<>>, <<>>)
    IN
    IF p.err # "" THEN RebalanceResult(p.err, b, p.current_balances, p.calls, <<>>, 0)
    ELSE plan_steps_from(
            [assets |-> assets, target_amounts |-> p.target_amounts, oc |-> oc,
             custom_pools |-> custom_pools],
            RebalanceResult("", b, p.current_balances, p.calls, <<>>, 0), 1, 0)

\* RebalancePlan: the steps recorded and their number.
RebalancePlan(plan_steps) == [steps |-> plan_steps, total_steps |-> Len(plan_steps)]

\* execute_rebalance_step: [err, bal, calls, amount_out].
execute_rebalance_step(cfg, b, step, oc, outcome) ==
    IF ~cfg.initialized THEN [err |-> "NotInitialized", bal |-> b, calls |-> <<>>, amount_out |-> 0]
    ELSE IF cfg.router_address = NoAddress
    THEN [err |-> "InvalidConfiguration", bal |-> b, calls |-> <<>>, amount_out |-> 0]
    ELSE
    LET balance == read_balance(b, step.from_token, VAULT)
        read == <<Call("balance", step.from_token, step.from_token, 0, 0)>>
    IN
    IF balance < step.amount_in
    THEN [err |-> "InsufficientBalance", bal |-> b, calls |-> read, amount_out |-> 0]
    ELSE
    LET approved == approve_router(read, step.from_token, step.amount_in) IN
    IF approved.err # ""
    THEN [err |-> approved.err, bal |-> b, calls |-> approved.calls, amount_out |-> 0]
    ELSE
    LET attempted == Append(approved.calls,
                            Call("swap", step.from_token, step.to_token, step.amount_in,
                                 step.min_amount_out))
        sw == swap_via_router(b, step.from_token, step.to_token, step.amount_in,
                              step.min_amount_out, oc, outcome)
    IN
    IF ~sw.ok THEN [err |-> "SwapFailed", bal |-> b, calls |-> attempted, amount_out |-> 0]
    ELSE [err |-> "", bal |-> sw.bal, calls |-> attempted, amount_out |-> sw.amount_out]

\* What a rule's action returns and did: [err, stake, bal, calls].
RuleResult(err, sk, b, calls) == [err |-> err, stake |-> sk, bal |-> b, calls |-> calls]

execute_liquidity_action(cfg, sk, b, rule, assets, total_value, oc) ==
    IF Len(assets) < 2 THEN RuleResult("InvalidConfiguration", sk, b, <<>>)
    ELSE
    LET liquidity_amount == and_then_div(checked_mul(total_value, rule.threshold),
                                         FULL_ALLOCATION)
    IN
    IF ~liquidity_amount.some THEN RuleResult("InvalidAmount", sk, b, <<>>)
    ELSE IF liquidity_amount.v > total_value THEN RuleResult("InsufficientBalance", sk, b, <<>>)
    ELSE IF ~cfg.initialized THEN RuleResult("NotInitialized", sk, b, <<>>)
    ELSE IF cfg.liquidity_pool_address = NoAddress
    THEN RuleResult("InvalidConfiguration", sk, b, <<>>)
    ELSE
    LET balance_a == read_balance(b, assets[1], VAULT)
        balance_b == read_balance(b, assets[2], VAULT)
        read == <<Call("balance", assets[1], assets[1], 0, 0),
                  Call("balance", assets[2], assets[2], 0, 0)>>
        amount_a == TruncDiv(liquidity_amount.v, 2)
        amount_b == TruncDiv(liquidity_amount.v, 2)
        lp_tokens == plus(amount_a, amount_b, oc)
    IN
    IF amount_a > balance_a \/ amount_b > balance_b
    THEN RuleResult("InsufficientBalance", sk, b, read)
    ELSE IF ~lp_tokens.some THEN RuleResult("Panic", sk, b, read)
    ELSE RuleResult("", [sk EXCEPT ![LP_POSITION] = lp_tokens.v], b, read)

\* The Result of a rebalance action r and of a stake action r, as RuleResults.
rebalanced(sk, r) == RuleResult(r.err, sk, r.bal, r.calls)

staked_by_rule(r) == RuleResult(r.err, r.stake, r.bal, <<>>)

execute_rule_action(cfg, sk, b, rule, assets, total_value, oc, outcomes, staked) ==
    IF rule.action = "rebalance"
    THEN rebalanced(sk, execute_rebalance_action(cfg, b, rule, assets, total_value, oc, outcomes))
    ELSE IF rule.action = "stake"
    THEN staked_by_rule(execute_stake_action(cfg, sk, b, rule, total_value, oc, staked))
    ELSE IF rule.action = "liquidity"
    THEN execute_liquidity_action(cfg, sk, b, rule, assets, total_value, oc)
    ELSE RuleResult("", sk, b, <<>>)

\* The effects s of the rules so far followed by those of the next rule, r.
and_then_rule(s, r) == RuleResult(r.err, r.stake, r.bal, s.calls \o r.calls)

\* The rule loop of execute_rebalance over rules i..Len(rules); s is a
\* RuleResult holding the effects of the rules before i.
RECURSIVE rule_actions_from(_, _, _, _, _, _, _)

\* `?` on the action of rule i, whose effects are in done: an error ends the
\* loop, otherwise the loop goes on with rule i + 1.
rule_actions_after(cfg, done, i, total_value, oc, outcomes, staked) ==
    IF done.err # "" THEN done
    ELSE rule_actions_from(cfg, done, i + 1, total_value, oc, outcomes, staked)

rule_actions_from(cfg, s, i, total_value, oc, outcomes, staked) ==
    IF i > Len(cfg.rules) THEN s
    ELSE rule_actions_after(
            cfg,
            and_then_rule(s, execute_rule_action(cfg, s.stake, s.bal, cfg.rules[i], cfg.assets,
                                                 total_value, oc, outcomes, staked)),
            i, total_value, oc, outcomes, staked)

execute_rebalance(cfg, st, sk, b, oc, outcomes, staked) ==
    IF ~cfg.initialized THEN RuleResult("NotInitialized", sk, b, <<>>)
    ELSE IF st.total_value = 0 THEN RuleResult("InsufficientBalance", sk, b, <<>>)
    ELSE rule_actions_from(cfg, RuleResult("", sk, b, <<>>), 1, st.total_value, oc, outcomes,
                           staked)

\* The rule loop of execute_rebalance_only over rules i..Len(rules).
RECURSIVE rebalance_rules_from(_, _, _, _, _, _)

\* `?` on the rebalance action of rule i, whose effects are in done.
rebalance_rules_after(cfg, done, i, total_value, oc, outcomes) ==
    IF done.err # "" THEN done
    ELSE rebalance_rules_from(cfg, done, i + 1, total_value, oc, outcomes)

rebalance_rules_from(cfg, s, i, total_value, oc, outcomes) ==
    IF i > Len(cfg.rules) THEN s
    ELSE IF cfg.rules[i].action # "rebalance"
    THEN rebalance_rules_from(cfg, s, i + 1, total_value, oc, outcomes)
    ELSE rebalance_rules_after(
            cfg,
            and_then_rule(s, rebalanced(s.stake,
                execute_rebalance_action(cfg, s.bal, cfg.rules[i], cfg.assets, total_value,
                                         oc, outcomes))),
            i, total_value, oc, outcomes)

execute_rebalance_only(cfg, sk, b, oc, outcomes) ==
    IF ~cfg.initialized THEN RuleResult("NotInitialized", sk, b, <<>>)
    ELSE
    LET actual_total_value == actual_total_value_from(cfg, b, 1, 0) IN
    IF ~actual_total_value.some THEN RuleResult("InvalidAmount", sk, b, <<>>)
    ELSE IF actual_total_value.v = 0 THEN RuleResult("InsufficientBalance", sk, b, <<>>)
    ELSE rebalance_rules_from(cfg, RuleResult("", sk, b, <<>>), 1, actual_total_value.v, oc,
                              outcomes)

\* `?` on the rebalance r, then the timestamp of the ledger stored as the
\* last rebalance.
last_rebalance_set(st, pos, sk, b, timestamp, r) ==
    IF r.err # "" THEN VaultFail(r.err, st, pos, sk, b)
    ELSE VaultResult("", [st EXCEPT !.last_rebalance = timestamp], pos, r.stake, r.bal, 0, 0)

\* VaultContract::trigger_rebalance; should is the rule engine's answer.
trigger_rebalance(cfg, st, pos, sk, b, oc, outcomes, should, timestamp) ==
    IF ~cfg.initialized THEN VaultFail("NotInitialized", st, pos, sk, b)
    ELSE IF ~should THEN VaultResult("", st, pos, sk, b, 0, 0)
    ELSE last_rebalance_set(st, pos, sk, b, timestamp,
                            execute_rebalance_only(cfg, sk, b, oc, outcomes))

\* VaultContract::force_rebalance
force_rebalance(cfg, st, pos, sk, b, oc, outcomes, staked, timestamp) ==
    IF ~cfg.initialized THEN VaultFail("NotInitialized", st, pos, sk, b)
    ELSE last_rebalance_set(st, pos, sk, b, timestamp,
                            execute_rebalance(cfg, st, sk, b, oc, outcomes, staked))

\* The owner-only setters of the collaborator references; signer is the
\* address that authorized the invocation; [err, config].
set_router(cfg, signer, router) ==
    IF ~cfg.initialized THEN [err |-> "NotInitialized", config |-> cfg]
    ELSE IF signer # cfg.owner THEN [err |-> "Panic", config |-> cfg]
    ELSE [err |-> "", config |-> [cfg EXCEPT !.router_address = router]]

\* set_staking_pool open to every caller that authorizes the invocation.
set_staking_pool_by_anyone(cfg, signer, caller, staking_pool) ==
    IF signer # caller THEN [err |-> "Panic", config |-> cfg]
    ELSE IF ~cfg.initialized THEN [err |-> "NotInitialized", config |-> cfg]
    ELSE [err |-> "", config |-> [cfg EXCEPT !.staking_pool_address = staking_pool]]

set_staking_pool(cfg, signer, caller, staking_pool) ==
    IF signer # caller THEN [err |-> "Panic", config |-> cfg]
    ELSE IF ~cfg.initialized THEN [err |-> "NotInitialized", config |-> cfg]
    ELSE IF caller # cfg.owner THEN [err |-> "Unauthorized", config |-> cfg]
    ELSE [err |-> "", config |-> [cfg EXCEPT !.staking_pool_address = staking_pool]]

set_factory(cfg, signer, caller, factory) ==
    IF signer # caller THEN [err |-> "Panic", config |-> cfg]
    ELSE IF ~cfg.initialized THEN [err |-> "NotInitialized", config |-> cfg]
    ELSE IF caller # cfg.owner THEN [err |-> "Unauthorized", config |-> cfg]
    ELSE [err |-> "", config |-> [cfg EXCEPT !.factory_address = factory]]

\* ------------------------------------------------------ rebalance actions
AllocationValues ==
    {0 - FULL_ALLOCATION, 0, (3 * FULL_ALLOCATION) \div 10, (7 * FULL_ALLOCATION) \div 10,
     FULL_ALLOCATION, I128_MAX}

MaxAssets == Cardinality(Tokens)

\* Vectors as long as an asset list can be, and some that are longer.
TargetVectors ==
    UNION {[1..n -> AllocationValues] : n \in 1..MaxAssets}
        \cup [1..(MaxAssets + 1) -> {0, FULL_ALLOCATION}]

TotalValues == {0, 1, 2 * InitialSupply}

RebalanceOutcomes ==
    {[kind |-> k, worst |-> FALSE] : k \in {"no_pool", "calc_fail", "out_fail", "fail", "ok"}}
        \cup {[kind |-> "ok", worst |-> TRUE]}

CustomPools == SUBSET Tokens

\* The same collaborator outcome for every (deficit, source) pair.
Uniformly(outcome) ==
    [i \in 1..Len(config.assets) |-> [j \in 1..Len(config.assets) |-> outcome]]

\* A vault configured with a router or none, holding some of its assets.
InitRebalance ==
    \E assets \in AssetLists \ {<<>>}, router \in {NoAddress, AMM},
       held \in [Tokens -> {0, InitialSupply}] :
        /\ bal = [t \in Tokens |-> [a \in Addresses |->
                    IF a \in Users THEN InitialSupply
                    ELSE IF a = AMM THEN 2 * InitialSupply
                    ELSE IF a = VAULT THEN held[t] ELSE 0]]
        /\ pool = [initialized |-> FALSE, token_a |-> NoAddress, token_b |-> NoAddress,
                reserve_a |-> 0, reserve_b |-> 0, total_shares |-> 0]
        /\ lp = [u \in {} |-> 0]
        /\ config = [initialized |-> TRUE, owner |-> "u1", assets |-> assets, rules |-> <<>>,
                     router_address |-> router, staking_pool_address |-> NoAddress,
                     factory_address |-> NoAddress,
                     liquidity_pool_address |-> NoAddress]
        /\ state = [total_shares |-> 0, total_value |-> 0, last_rebalance |-> 0]
        /\ stake = NoStakes
        /\ position = [u \in {} |-> 0]
        /\ last = [op |-> "vault_initialize", err |-> ""]
        /\ steps = 0

\* An Err return or a panic of the function rolls its effects back.
RebalanceStep(op, r) ==
    /\ Invoke
    /\ bal' = (IF r.err = "" THEN r.bal ELSE bal)
    /\ last' = [op |-> op, err |-> r.err]
    /\ UNCHANGED <<pool, lp, config, state, stake, position>>

ExecuteRebalanceAction ==
    \E target_allocation \in TargetVectors, total_value \in TotalValues,
       outcome \in RebalanceOutcomes :
        RebalanceStep("execute_rebalance_action",
            execute_rebalance_action(config, bal,
                [action |-> "rebalance", threshold |-> 0, target_allocation |-> target_allocation],
                config.assets, total_value, TRUE, Uniformly(outcome)))

ForceRebalanceToAllocation ==
    \E target_allocation \in TargetVectors, total_value \in TotalValues,
       outcome \in RebalanceOutcomes, custom_pools \in CustomPools :
        RebalanceStep("force_rebalance_to_allocation",
            force_rebalance_to_allocation(config, bal, custom_pools, config.assets,
                target_allocation, total_value, TRUE, Uniformly(outcome)))

CalculateRebalancePlan ==
    \E target_allocation \in TargetVectors, total_value \in TotalValues,
       custom_pools \in CustomPools :
        RebalanceStep("calculate_rebalance_plan",
            calculate_rebalance_plan(bal, custom_pools, config.assets, target_allocation,
                                     total_value, TRUE))

NextRebalance == ExecuteRebalanceAction \/ ForceRebalanceToAllocation \/ CalculateRebalancePlan

SpecRebalance == InitRebalance /\ [][NextRebalance]_vars

\* ---------------------------------------------- rebalances that swap
TOKEN_C == "TC"
TOKEN_D == "TD"
TOKEN_E == "TE"
RebalanceTokens == {TOKEN_A, TOKEN_B, TOKEN_C, TOKEN_D, TOKEN_E}

FiveAssets == <<TOKEN_A, TOKEN_B, TOKEN_C, TOKEN_D, TOKEN_E>>

SwapAssetLists == {<<TOKEN_A, TOKEN_B, TOKEN_C>>, FiveAssets}

\* The vault's holding of each token, in the order of FiveAssets.
Holding(a, b, c, d, e) ==
    (TOKEN_A :> a) @@ (TOKEN_B :> b) @@ (TOKEN_C :> c) @@ (TOKEN_D :> d) @@ (TOKEN_E :> e)

\* One asset holds more than everything; two assets hold everything, one
\* of them just over a threshold more than two even shares; one asset is a
\* small threshold short with no source holding that much in excess; one
\* asset is within the small threshold and another beyond it; every asset
\* is within the small threshold of an even split.
SwapHoldings ==
    {Holding(0, 0, 0, 0, 6 * MIN_SWAP_THRESHOLD),
     Holding(0, 0, 2 * MIN_SWAP_THRESHOLD + 30, (5 * MIN_SWAP_THRESHOLD) \div 2, 0),
     Holding(MIN_SWAP_THRESHOLD - MIN_SWAP_AMOUNT, MIN_SWAP_THRESHOLD + MIN_SWAP_AMOUNT \div 2,
             MIN_SWAP_THRESHOLD, MIN_SWAP_THRESHOLD,
             MIN_SWAP_THRESHOLD + MIN_SWAP_AMOUNT \div 2),
     Holding(MIN_SWAP_THRESHOLD - MIN_SWAP_AMOUNT \div 2,
             MIN_SWAP_THRESHOLD - (3 * MIN_SWAP_AMOUNT) \div 2,
             MIN_SWAP_THRESHOLD, MIN_SWAP_THRESHOLD,
             MIN_SWAP_THRESHOLD + 2 * MIN_SWAP_AMOUNT),
     Holding(MIN_SWAP_THRESHOLD - MIN_SWAP_AMOUNT \div 2,
             MIN_SWAP_THRESHOLD + MIN_SWAP_AMOUNT \div 2 - 1,
             MIN_SWAP_THRESHOLD, MIN_SWAP_THRESHOLD, MIN_SWAP_THRESHOLD + 1)}

\* What the router's counterparty holds of each token.
RouterReserve == 10 * MIN_SWAP_THRESHOLD

SwapTargets ==
    {[i \in 1..5 |-> FULL_ALLOCATION \div 5],
     <<FULL_ALLOCATION \div 2, FULL_ALLOCATION \div 2, 0, 0, 0>>,
     <<(21 * FULL_ALLOCATION) \div 100, (19 * FULL_ALLOCATION) \div 100,
       FULL_ALLOCATION \div 5, FULL_ALLOCATION \div 5, FULL_ALLOCATION \div 5>>,
     <<(4 * FULL_ALLOCATION) \div 10, (3 * FULL_ALLOCATION) \div 10,
       (3 * FULL_ALLOCATION) \div 10>>,
     <<FULL_ALLOCATION, 0, 0>>}

SwapTotals == {0, 2 * MIN_SWAP_THRESHOLD, 5 * MIN_SWAP_THRESHOLD}

Answer(kind, worst) == [kind |-> kind, worst |-> worst]

\* The collaborators answer bad for the deficits in rows from the sources in
\* columns, and good for every other pair.
Where(rows, columns, bad, good) ==
    [i \in 1..5 |-> [j \in 1..5 |-> IF i \in rows /\ j \in columns THEN bad ELSE good]]

\* Every pair is served, at the quote or at the least accepted.
Served == {Where({}, {}, Answer("ok", FALSE), Answer("ok", worst)) : worst \in BOOLEAN}

\* The router fails for the first deficit or for all, from one source or
\* from all.
RouterOutcomes ==
    Served \cup
    {Where(rows, columns, Answer("fail", FALSE), Answer("ok", FALSE)) :
        rows \in {{1}, 1..5}, columns \in {{3}, {5}, 1..5}}

\* The pool lookup, either quote or the router fails, for the first deficit
\* or for the later ones.
PoolOutcomes ==
    Served \cup
    {Where(rows, 1..5, Answer(kind, FALSE), Answer("ok", FALSE)) :
        rows \in {{1}, 2..5}, kind \in {"no_pool", "calc_fail", "out_fail", "fail"}}

RegisteredPools == {{}, {TOKEN_A}, {TOKEN_C, TOKEN_E}}

\* Steps of plans and steps no plan holds.
StepInputs ==
    [from_token : {TOKEN_A, TOKEN_E}, to_token : {TOKEN_B},
     amount_in : {-1, 0, MIN_SWAP_THRESHOLD, 6 * MIN_SWAP_THRESHOLD},
     min_amount_out : {min_amount_out_of(MIN_SWAP_THRESHOLD, TRUE).v}]

InitSwaps ==
    \E assets \in SwapAssetLists, router \in {NoAddress, AMM}, held \in SwapHoldings :
        /\ bal = [t \in RebalanceTokens |-> [a \in Addresses |->
                    IF a = VAULT THEN held[t] ELSE IF a = AMM THEN RouterReserve ELSE 0]]
        /\ pool = [initialized |-> FALSE, token_a |-> NoAddress, token_b |-> NoAddress,
                reserve_a |-> 0, reserve_b |-> 0, total_shares |-> 0]
        /\ lp = [u \in {} |-> 0]
        /\ config = [initialized |-> TRUE, owner |-> "u1", assets |-> assets, rules |-> <<>>,
                     router_address |-> router, staking_pool_address |-> NoAddress,
                     factory_address |-> NoAddress,
                     liquidity_pool_address |-> NoAddress]
        /\ state = [total_shares |-> 0, total_value |-> 0, last_rebalance |-> 0]
        /\ stake = NoStakes
        /\ position = [u \in {} |-> 0]
        /\ last = [op |-> "vault_initialize", err |-> ""]
        /\ steps = 0

ExecuteRebalanceActionSwaps ==
    \E target_allocation \in SwapTargets, total_value \in SwapTotals,
       outcomes \in PoolOutcomes :
        RebalanceStep("execute_rebalance_action",
            execute_rebalance_action(config, bal,
                [action |-> "rebalance", threshold |-> 0, target_allocation |-> target_allocation],
                config.assets, total_value, TRUE, outcomes))

ForceRebalanceToAllocationSwaps ==
    \E target_allocation \in SwapTargets, total_value \in SwapTotals,
       outcomes \in RouterOutcomes, custom_pools \in RegisteredPools :
        RebalanceStep("force_rebalance_to_allocation",
            force_rebalance_to_allocation(config, bal, custom_pools, config.assets,
                target_allocation, total_value, TRUE, outcomes))

CalculateRebalancePlanSwaps ==
    \E target_allocation \in SwapTargets, total_value \in SwapTotals,
       custom_pools \in RegisteredPools :
        RebalanceStep("calculate_rebalance_plan",
            calculate_rebalance_plan(bal, custom_pools, config.assets, target_allocation,
                                     total_value, TRUE))

ExecuteRebalanceStep ==
    \E step \in StepInputs, worst \in BOOLEAN, kind \in {"ok", "fail"} :
        RebalanceStep("execute_rebalance_step",
            execute_rebalance_step(config, bal, step, TRUE, Answer(kind, worst)))

\* Each behaviour is one invocation on a vault drawn by InitSwaps.
NextSwaps ==
    \/ steps = 0 /\ ExecuteRebalanceActionSwaps
    \/ steps = 0 /\ ForceRebalanceToAllocationSwaps
    \/ steps = 0 /\ CalculateRebalancePlanSwaps
    \/ steps = 0 /\ ExecuteRebalanceStep

SpecSwaps == InitSwaps /\ [][NextSwaps]_vars

\* ------------------------------------- rebalances of a configured vault
EvenSplit == [i \in 1..5 |-> FULL_ALLOCATION \div 5]

RebalanceTo(target_allocation) ==
    [action |-> "rebalance", threshold |-> 0, target_allocation |-> target_allocation]

\* One rebalance rule, or a second one after it.
TriggerRules ==
    {<<RebalanceTo(EvenSplit)>>,
     <<RebalanceTo(EvenSplit), RebalanceTo(<<0, 0, 0, 0, FULL_ALLOCATION>>)>>}

\* The vault holds nothing, or one of SwapHoldings.
TriggerHoldings == {Holding(0, 0, 0, 0, 0)} \cup SwapHoldings

\* A vault of five assets with a router and rebalance rules; its recorded
\* total value is what was deposited, its holdings what deposits, swaps
\* and transfers to its address have left.
InitTriggers ==
    \E rules \in TriggerRules, held \in TriggerHoldings,
       total_value \in {0, 5 * MIN_SWAP_THRESHOLD}, staking_pool \in {NoAddress, POOL} :
        /\ bal = [t \in RebalanceTokens |-> [a \in Addresses |->
                    IF a = VAULT THEN held[t] ELSE IF a = AMM THEN RouterReserve ELSE 0]]
        /\ pool = [initialized |-> FALSE, token_a |-> NoAddress, token_b |-> NoAddress,
                reserve_a |-> 0, reserve_b |-> 0, total_shares |-> 0]
        /\ lp = [u \in {} |-> 0]
        /\ config = [initialized |-> TRUE, owner |-> "u1", assets |-> FiveAssets,
                     rules |-> rules,
                     router_address |-> AMM, staking_pool_address |-> staking_pool,
                     factory_address |-> NoAddress,
                     liquidity_pool_address |-> NoAddress]
        /\ state = [total_shares |-> total_value, total_value |-> total_value,
                    last_rebalance |-> 0]
        /\ stake = NoStakes
        /\ position = [u \in {"u1"} \cap (IF total_value > 0 THEN Users ELSE {}) |-> total_value]
        /\ last = [op |-> "vault_initialize", err |-> ""]
        /\ steps = 0

\* An invocation of the vault that leaves its configuration alone.
TriggerStep(op, r) ==
    /\ steps' = steps + 1
    /\ state' = r.state
    /\ position' = r.position
    /\ stake' = r.stake
    /\ bal' = r.bal
    /\ last' = [op |-> op, err |-> r.err]
    /\ UNCHANGED <<pool, lp, config>>

\* An invocation of a setter of the configuration.
SetterStep(op, r) ==
    /\ steps' = steps + 1
    /\ config' = r.config
    /\ last' = [op |-> op, err |-> r.err]
    /\ UNCHANGED <<bal, pool, lp, state, stake, position>>

TriggerRebalance ==
    \E outcomes \in PoolOutcomes, should \in BOOLEAN, timestamp \in Timestamps :
        TriggerStep("trigger_rebalance",
            trigger_rebalance(config, state, position, stake, bal, TRUE, outcomes, should,
                              timestamp))

ForceRebalance ==
    \E outcomes \in PoolOutcomes, timestamp \in Timestamps :
        TriggerStep("force_rebalance",
            force_rebalance(config, state, position, stake, bal, TRUE, outcomes,
                            [ok |-> FALSE, st_tokens |-> 0], timestamp))

References == {POOL, AMM}

SetRouter ==
    \E signer \in Users, router \in References :
        SetterStep("set_router", set_router(config, signer, router))

SetStakingPool ==
    \E signer \in Users, caller \in Users, staking_pool \in References :
        SetterStep("set_staking_pool", set_staking_pool(config, signer, caller, staking_pool))

SetFactory ==
    \E signer \in Users, caller \in Users, factory \in References :
        SetterStep("set_factory", set_factory(config, signer, caller, factory))

\* Each behaviour is one invocation on a vault drawn by InitTriggers.
NextTriggers ==
    \/ steps = 0 /\ TriggerRebalance
    \/ steps = 0 /\ ForceRebalance
    \/ steps = 0 /\ SetRouter
    \/ steps = 0 /\ SetStakingPool
    \/ steps = 0 /\ SetFactory

SpecTriggers == InitTriggers /\ [][NextTriggers]_vars

\* ------------------------------------- the vault's client of the real pool
EstimateFail(err) == [err |-> err, v |-> 0]

\* The estimate without the pool's fee.
calculate_real_pool_output_no_fee(p, from_token, amount_in) ==
    IF amount_in <= 0 THEN EstimateFail("InvalidAmount")
    ELSE IF ~p.initialized THEN EstimateFail("NotInitialized")
    ELSE IF from_token # p.token_a /\ from_token # p.token_b
    THEN EstimateFail("InvalidConfiguration")
    ELSE
    LET reserve_in == IF from_token = p.token_a THEN p.reserve_a ELSE p.reserve_b
        reserve_out == IF from_token = p.token_a THEN p.reserve_b ELSE p.reserve_a
        amount_in_with_fee == checked_mul(amount_in, FEE_DENOMINATOR)
    IN
    IF ~amount_in_with_fee.some THEN EstimateFail("InvalidAmount")
    ELSE
    LET numerator == checked_mul(amount_in_with_fee.v, reserve_out)
        denominator == and_then_add(checked_mul(reserve_in, FEE_DENOMINATOR), amount_in_with_fee.v)
    IN
    IF ~numerator.some \/ ~denominator.some THEN EstimateFail("InvalidAmount")
    ELSE IF ~checked_div(numerator.v, denominator.v).some THEN EstimateFail("Panic")
    ELSE [err |-> "", v |-> TruncDiv(numerator.v, denominator.v)]

\* calculate_real_pool_output; [err, v]. The pool's token_0, token_1 and
\* get_reserves are read from p; `numerator / denominator` panics on a zero
\* denominator and on i128::MIN / -1.
calculate_real_pool_output(p, from_token, amount_in) ==
    IF amount_in <= 0 THEN EstimateFail("InvalidAmount")
    ELSE IF ~p.initialized THEN EstimateFail("NotInitialized")
    ELSE IF from_token # p.token_a /\ from_token # p.token_b
    THEN EstimateFail("InvalidConfiguration")
    ELSE
    LET reserve_in == IF from_token = p.token_a THEN p.reserve_a ELSE p.reserve_b
        reserve_out == IF from_token = p.token_a THEN p.reserve_b ELSE p.reserve_a
        amount_in_with_fee == checked_mul(amount_in, FEE_NUMERATOR)
    IN
    IF ~amount_in_with_fee.some THEN EstimateFail("InvalidAmount")
    ELSE
    LET numerator == checked_mul(amount_in_with_fee.v, reserve_out)
        denominator == and_then_add(checked_mul(reserve_in, FEE_DENOMINATOR), amount_in_with_fee.v)
    IN
    IF ~numerator.some \/ ~denominator.some THEN EstimateFail("InvalidAmount")
    ELSE IF ~checked_div(numerator.v, denominator.v).some THEN EstimateFail("Panic")
    ELSE [err |-> "", v |-> TruncDiv(numerator.v, denominator.v)]

\* What swap_via_real_pool leaves: the error, the pool, the balances, the
\* amount returned and the number of token transfers asked for.
RealSwapResult(err, p, l, b, out, transfers) ==
    [err |-> err, pool |-> p, lp |-> l, bal |-> b, out |-> out, transfers |-> transfers]

\* The pool's swap on behalf of the vault, after the vault's own transfer
\* t0 of amount_in to the pool; auth is whether the vault's authorization
\* covers the transfer the pool asks of the token.
swap_after_transfer(p, l, b, t0, auth, oc, from_token, amount_in, min_amount_out) ==
    IF ~t0.ok THEN RealSwapResult("TokenPanic", p, l, b, 0, 1)
    ELSE LET s == swap(p, l, t0.bal, auth, oc, VAULT, from_token, amount_in, min_amount_out)
         IN  IF s.err # "" THEN RealSwapResult(s.err, p, l, b, 0, 1)
             ELSE RealSwapResult("", s.pool, s.lp, s.bal, s.r1, 3)

\* swap_via_real_pool, invoked by the vault.
swap_via_real_pool(p, l, b, auth, oc, from_token, to_token, amount_in, min_amount_out) ==
    IF amount_in <= 0 THEN RealSwapResult("InvalidAmount", p, l, b, 0, 0)
    ELSE IF ~p.initialized THEN RealSwapResult("NotInitialized", p, l, b, 0, 0)
    ELSE IF (from_token # p.token_a /\ from_token # p.token_b)
            \/ (to_token # p.token_a /\ to_token # p.token_b)
    THEN RealSwapResult("InvalidConfiguration", p, l, b, 0, 0)
    ELSE
    LET expected_output == calculate_real_pool_output(p, from_token, amount_in) IN
    IF expected_output.err # "" THEN RealSwapResult(expected_output.err, p, l, b, 0, 0)
    ELSE IF expected_output.v < min_amount_out THEN RealSwapResult("SlippageTooHigh", p, l, b, 0, 0)
    ELSE swap_after_transfer(p, l, b, transfer(b, from_token, VAULT, POOL, amount_in, oc),
                             auth, oc, from_token, amount_in, min_amount_out)

RealTokens == {TOKEN_A, TOKEN_B, TOKEN_X}

RealAmounts == {-1, 0, 1, 100, 500, 1000}

RealMinimums == {-4, 0, 181, 182, 400}

\* What the provider u1 holds before the first provision.
RealBal(held) ==
    [t \in Tokens |-> [a \in Addresses |->
        IF a = "u1" THEN 5000 ELSE IF a = VAULT THEN held ELSE 0]]

\* The pool nobody has provisioned, and the pool after u1's first provision
\* add_liquidity(u1, a, b, 0, 0).
RealProvision(held, a, b) ==
    add_liquidity([initialized |-> TRUE, token_a |-> TOKEN_A, token_b |-> TOKEN_B,
                reserve_a |-> 0, reserve_b |-> 0, total_shares |-> 0],
                  [u \in {} |-> 0], RealBal(held), TRUE, TRUE, "u1", a, b, 0, 0)

RealProvisions == {<<0, 0>>, <<1000, 2000>>, <<300, 300>>, <<-1000, -2000>>}

InitRealPool ==
    \E held \in {0, 150, 1200}, provision \in RealProvisions, initialized \in BOOLEAN :
        /\ IF initialized THEN TRUE ELSE provision = <<0, 0>>
        /\ bal = RealProvision(held, provision[1], provision[2]).bal
        /\ pool = [RealProvision(held, provision[1], provision[2]).pool
                     EXCEPT !.initialized = initialized,
                            !.token_a = IF initialized THEN TOKEN_A ELSE NoAddress,
                            !.token_b = IF initialized THEN TOKEN_B ELSE NoAddress]
        /\ lp = RealProvision(held, provision[1], provision[2]).lp
        /\ config = NoConfig
        /\ state = [total_shares |-> 0, total_value |-> 0, last_rebalance |-> 0]
        /\ stake = NoStakes
        /\ position = [u \in {} |-> 0]
        /\ last = [op |-> "deploy", err |-> ""]
        /\ steps = 0

\* The vault swaps through its client of the pool.
SwapViaRealPool ==
    \E auth \in BOOLEAN, oc \in OverflowChecks, from_token \in RealTokens, to_token \in RealTokens,
       amount_in \in {0, 100, 500}, min_amount_out \in {0, 182} :
        /\ IF auth THEN TRUE
           ELSE <<oc, from_token, to_token, amount_in, min_amount_out>>
                    = <<TRUE, TOKEN_A, TOKEN_B, 100, 0>>
        /\ IF from_token = TOKEN_X THEN to_token = TOKEN_A ELSE TRUE
        /\ LargeStep("swap_via_real_pool",
                     swap_via_real_pool(pool, lp, bal, auth, oc, from_token, to_token,
                                        amount_in, min_amount_out))

\* The provider swaps with the pool directly.
SwapReal ==
    \E oc \in OverflowChecks, token_in \in Tokens, amount_in \in {100, 500},
       amount_out_min \in {0, 182} :
        LargeStep("swap", swap(pool, lp, bal, TRUE, oc, "u1", token_in, amount_in, amount_out_min))

NextRealPool ==
    \/ steps < MaxCalls /\ SwapViaRealPool
    \/ steps < MaxCalls /\ SwapReal

SpecRealPool == InitRealPool /\ [][NextRealPool]_vars

\* ------------------------------------------------------------------ claims
PoolTokens == {TOKEN_A, TOKEN_B}

\* Mathematical floor of n / d, d # 0.
FloorDiv(n, d) ==
    LET q == TruncDiv(n, d) IN IF q * d # n /\ ((n < 0) # (d < 0)) THEN q - 1 ELSE q

\* The largest s with s * s <= x, x >= 0.
ISqrt(x) == CHOOSE s \in 0..x : s * s <= x /\ (s + 1) * (s + 1) > x

RECURSIVE SumShares(_, _)
SumShares(f, S) ==
    IF S = {} THEN 0 ELSE LET u == CHOOSE x \in S : TRUE IN f[u] + SumShares(f, S \ {u})

ReserveOf(p, t) == IF t = TOKEN_A THEN p.reserve_a ELSE p.reserve_b

OtherToken(t) == IF t = TOKEN_A THEN TOKEN_B ELSE TOKEN_A

SwapInputs ==
    [oc : OverflowChecks, user : Users, token_in : PoolTokens, amount_in : Amounts,
     amount_out_min : Minimums]

SwapOf(i) == swap(pool, lp, bal, TRUE, i.oc, i.user, i.token_in, i.amount_in, i.amount_out_min)

AddInputs ==
    [oc : OverflowChecks, user : Users, a_des : Amounts, b_des : Amounts,
     a_min : Minimums, b_min : Minimums]

AddOf(i) == add_liquidity(pool, lp, bal, TRUE, i.oc, i.user, i.a_des, i.b_des, i.a_min, i.b_min)

\* C1: every successful swap, in either direction and from any reachable pool
\* state, leaves reserve_a * reserve_b at least as large as it was.
C1_ProductNonDecreasing ==
    \A i \in SwapInputs :
        LET r == SwapOf(i) IN
        r.err = "" =>
            r.pool.reserve_a * r.pool.reserve_b >= pool.reserve_a * pool.reserve_b

\* C2: after any sequence of successful and failed deposit, deposit_with_token
\* and withdraw calls, the stored UserPosition.shares add up to
\* VaultState.total_shares.
C2_ShareLedger == state.total_shares = SumShares(position, DOMAIN position)

\* Two depositors held shares and one of them has withdrawn everything.
C2_Witness ==
    /\ last.op = "withdraw" /\ last.err = ""
    /\ Cardinality(DOMAIN position) = 1
    /\ state.total_shares > 0

WithdrawInputs ==
    [oc : OverflowChecks, user : Users, shares : Amounts,
     outcomes : OutcomeVectors(Len(config.assets))]

\* C3: whenever the realized exit-asset balance after liquidation is below
\* total_value, a successful withdraw pays realized_balance * shares /
\* total_shares.
C3_ProportionalShortfall ==
    \A i \in WithdrawInputs :
        LET r == withdraw(config, state, position, stake, bal, TRUE, i.oc, i.user, i.shares,
                          NoUnstake, i.outcomes)
        IN  (r.err = "" /\ r.r2 < state.total_value) =>
                r.r1 = TruncDiv(r.r2 * i.shares, state.total_shares)

\* C4: in every reachable pool state total_shares is the sum of the providers'
\* stored LP share balances.
C4_SharesAccounted == pool.total_shares = SumShares(lp, DOMAIN lp)

\* A provider has burned all their shares while another still holds some.
C4_Witness ==
    /\ last.op = "remove_liquidity" /\ last.err = ""
    /\ Cardinality(DOMAIN lp) = 1
    /\ pool.total_shares > 0

\* C5: in every reachable pool state both reserves are non-negative.
C5_ReservesNonNegative == pool.reserve_a >= 0 /\ pool.reserve_b >= 0

\* C6: a successful swap of amount_in > 0 pays exactly
\* floor(amount_in*997*reserve_out / (reserve_in*1000 + amount_in*997)), adds
\* amount_in to the input reserve and takes the payout from the output reserve.
C6_SwapPricing ==
    \A i \in SwapInputs :
        LET r == SwapOf(i)
            reserve_in == ReserveOf(pool, i.token_in)
            reserve_out == ReserveOf(pool, OtherToken(i.token_in))
        IN  r.err = "" =>
            /\ i.amount_in > 0
            /\ r.r1 = FloorDiv(i.amount_in * 997 * reserve_out,
                               reserve_in * 1000 + i.amount_in * 997)
            /\ ReserveOf(r.pool, i.token_in) = reserve_in + i.amount_in
            /\ ReserveOf(r.pool, OtherToken(i.token_in)) = reserve_out - r.r1

\* C7: a swap whose amount_out_min is above the output the pool computes fails
\* with SlippageExceeded and leaves the reserves, total_shares, the LP entries
\* and every token balance as they were.
C7_SlippageRejected ==
    \A i \in SwapInputs :
        LET r == SwapOf(i)
            out == swap_amount_out(i.amount_in, ReserveOf(pool, i.token_in),
                                   ReserveOf(pool, OtherToken(i.token_in)))
        IN  (pool.initialized /\ i.amount_in > 0 /\ out.some /\ i.amount_out_min > out.v) =>
                /\ r.err = "SlippageExceeded"
                /\ r.pool = pool /\ r.lp = lp /\ r.bal = bal

\* A swap on a funded pool has just been rejected for slippage.
C7_Witness ==
    /\ last.op = "swap" /\ last.err = "SlippageExceeded"
    /\ pool.reserve_a > 0 /\ pool.reserve_b > 0

\* C8 as stated: a swap whose computed amount_out is >= reserve_out fails with
\* InsufficientLiquidity, and after every successful swap the output-side
\* reserve is strictly positive.
C8_NeverDrained ==
    \A i \in SwapInputs :
        LET r == SwapOf(i)
            reserve_out == ReserveOf(pool, OtherToken(i.token_in))
            out == swap_amount_out(i.amount_in, ReserveOf(pool, i.token_in), reserve_out)
        IN  /\ (pool.initialized /\ i.amount_in > 0 /\ out.some /\ out.v >= reserve_out) =>
                    r.err = "InsufficientLiquidity"
            /\ r.err = "" => ReserveOf(r.pool, OtherToken(i.token_in)) > 0

\* C8 amended: a swap whose computed amount_out is >= reserve_out fails and
\* changes nothing, with SlippageExceeded when amount_out is also below
\* amount_out_min and with InsufficientLiquidity otherwise; after every
\* successful swap the output-side reserve is strictly positive.
C8_NeverDrainedAmended ==
    \A i \in SwapInputs :
        LET r == SwapOf(i)
            reserve_out == ReserveOf(pool, OtherToken(i.token_in))
            out == swap_amount_out(i.amount_in, ReserveOf(pool, i.token_in), reserve_out)
        IN  /\ (pool.initialized /\ i.amount_in > 0 /\ out.some /\ out.v >= reserve_out) =>
                    /\ r.err = (IF out.v < i.amount_out_min THEN "SlippageExceeded"
                                ELSE "InsufficientLiquidity")
                    /\ r.pool = pool /\ r.lp = lp /\ r.bal = bal
            /\ r.err = "" => ReserveOf(r.pool, OtherToken(i.token_in)) > 0

\* A swap has just been refused because it would have drained the reserve.
C8_Witness == last.op = "swap" /\ last.err = "InsufficientLiquidity"

FreshPool == [initialized |-> TRUE, token_a |-> TOKEN_A, token_b |-> TOKEN_B,
                reserve_a |-> 0, reserve_b |-> 0, total_shares |-> 0]

\* The provider u1 holding 1000 of token A and 500 of token B.
FundedBal == [bal EXCEPT ![TOKEN_A]["u1"] = 1000, ![TOKEN_B]["u1"] = 500]

\* C9: on a pool with zero reserves and zero total_shares a successful
\* add_liquidity with positive amounts takes the desired amounts, mints
\* floor(sqrt(amount_a * amount_b)) shares to the provider and sets the
\* reserves to the amounts and total_shares to the minted shares; (1000, 500)
\* mints 707.
C9_FirstProvision ==
    /\ \A i \in AddInputs :
        LET r == AddOf(i) IN
        (pool.reserve_a = 0 /\ pool.reserve_b = 0 /\ pool.total_shares = 0
            /\ i.a_des > 0 /\ i.b_des > 0 /\ r.err = "") =>
                /\ r.r2 = i.a_des /\ r.r3 = i.b_des
                /\ r.r1 = ISqrt(i.a_des * i.b_des)
                /\ r.pool.reserve_a = i.a_des /\ r.pool.reserve_b = i.b_des
                /\ r.pool.total_shares = r.r1
                /\ get_user_liquidity(r.lp, i.user) = get_user_liquidity(lp, i.user) + r.r1
    /\ \A oc \in OverflowChecks :
        LET r == add_liquidity(FreshPool, lp, FundedBal, TRUE, oc, "u1", 1000, 500, 0, 0) IN
        /\ r.err = "" /\ r.r1 = 707
        /\ r.pool.reserve_a = 1000 /\ r.pool.reserve_b = 500 /\ r.pool.total_shares = 707

\* The first provision has just been made with positive amounts.
C9_Witness ==
    /\ last.op = "add_liquidity" /\ last.err = ""
    /\ pool.reserve_a > 0 /\ pool.reserve_b > 0
    /\ Cardinality(DOMAIN lp) = 1
    /\ pool.total_shares = ISqrt(pool.reserve_a * pool.reserve_b)
    /\ pool.total_shares = SumShares(lp, DOMAIN lp)

\* C10: add_liquidity does not succeed when an amount it takes is below the
\* caller's minimum for that token, and on a pool with non-zero reserves the
\* amounts taken are (amount_a_desired, quote(amount_a_desired)) when that
\* quote is <= amount_b_desired, otherwise (quote(amount_b_desired),
\* amount_b_desired).
C10_MinimumsEnforced ==
    \A i \in AddInputs :
        LET r == AddOf(i)
            quote_b == quote(i.a_des, pool.reserve_a, pool.reserve_b)
            quote_a == quote(i.b_des, pool.reserve_b, pool.reserve_a)
        IN  r.err = "" =>
            /\ r.r2 >= i.a_min /\ r.r3 >= i.b_min
            /\ (pool.reserve_a # 0 /\ pool.reserve_b # 0) =>
                    <<r.r2, r.r3>> = (IF quote_b <= i.b_des THEN <<i.a_des, quote_b>>
                                      ELSE <<quote_a, i.b_des>>)

RemoveInputs ==
    [oc : OverflowChecks, user : Users, liquidity : Amounts, a_min : Minimums, b_min : Minimums]

RemoveOf(i) == remove_liquidity(pool, lp, bal, TRUE, i.oc, i.user, i.liquidity, i.a_min, i.b_min)

\* C12: remove_liquidity fails and changes nothing when the provider holds
\* fewer shares than requested; with enough shares it fails with
\* SlippageExceeded when a redeemed amount is below its minimum; on success it
\* pays floor(reserve_x * shares / total_shares) of each token, takes these from
\* the reserves and the shares from total_shares and from the provider, and
\* deletes the provider's entry exactly when no shares are left.
C12_RemoveLiquidity ==
    \A i \in RemoveInputs :
        LET r == RemoveOf(i)
            held == get_user_liquidity(lp, i.user)
            amount_a == FloorDiv(pool.reserve_a * i.liquidity, pool.total_shares)
            amount_b == FloorDiv(pool.reserve_b * i.liquidity, pool.total_shares)
        IN  /\ (pool.initialized /\ held < i.liquidity) =>
                    r.err # "" /\ r.pool = pool /\ r.lp = lp /\ r.bal = bal
            /\ (pool.initialized /\ i.liquidity > 0 /\ held >= i.liquidity
                    /\ (amount_a < i.a_min \/ amount_b < i.b_min)) =>
                    r.err = "SlippageExceeded" /\ r.pool = pool /\ r.lp = lp /\ r.bal = bal
            /\ r.err = "" =>
                    /\ r.r1 = amount_a /\ r.r2 = amount_b
                    /\ r.pool.reserve_a = pool.reserve_a - amount_a
                    /\ r.pool.reserve_b = pool.reserve_b - amount_b
                    /\ r.pool.total_shares = pool.total_shares - i.liquidity
                    /\ get_user_liquidity(r.lp, i.user) = held - i.liquidity
                    /\ r.bal[TOKEN_A][i.user] = bal[TOKEN_A][i.user] + amount_a
                    /\ r.bal[TOKEN_B][i.user] = bal[TOKEN_B][i.user] + amount_b
                    /\ (i.user \in DOMAIN r.lp) = (held - i.liquidity # 0)

\* Only u1 holds tokens: 1000 of token A and 500 of token B.
ExampleBal ==
    [t \in Tokens |-> [a \in Addresses |->
        IF a = "u1" THEN (IF t = TOKEN_A THEN 1000 ELSE 500) ELSE 0]]

DepositInputs ==
    [oc : OverflowChecks, user : Users, amount : Amounts, deposit_token : Tokens,
     outcome : SwapOutcomes]

DepositOf(i) ==
    deposit_with_token(config, state, position, stake, bal, TRUE, i.oc, i.user, i.amount,
                       i.deposit_token, i.outcome)

\* The shares the claim says a deposit of amount mints.
MintedFor(st, amount) ==
    IF st.total_shares = 0 THEN amount
    ELSE FloorDiv(amount * st.total_shares, st.total_value)

\* C14: a successful deposit whose accounted amount is amount (the deposit
\* itself for the base asset, the swap's proceeds otherwise) mints amount
\* shares when total_shares = 0 and floor(amount * total_shares / total_value)
\* otherwise, adds the minted shares to total_shares and to the depositor's
\* position, and adds amount to total_value; deposit does the same with the
\* base asset.
C14_DepositMinting ==
    /\ \A i \in DepositInputs :
        LET r == DepositOf(i)
            accounted == IF i.deposit_token = config.assets[1] THEN i.amount ELSE i.outcome.out
        IN  r.err = "" =>
                /\ r.r2 = accounted
                /\ r.r1 = MintedFor(state, accounted)
                /\ r.state.total_shares = state.total_shares + r.r1
                /\ r.state.total_value = state.total_value + accounted
                /\ r.state.last_rebalance = state.last_rebalance
                /\ get_position(r.position, i.user) = get_position(position, i.user) + r.r1
                /\ \A u \in Users \ {i.user} :
                        get_position(r.position, u) = get_position(position, u)
    /\ \A oc \in OverflowChecks, user \in Users, amount \in Amounts :
        LET r == deposit(config, state, position, stake, bal, TRUE, oc, user, amount, NoOutcome) IN
        r.err = "" =>
            /\ r.r2 = amount /\ r.r1 = MintedFor(state, amount)
            /\ r.state.total_shares = state.total_shares + r.r1
            /\ r.state.total_value = state.total_value + amount

\* A deposit has just succeeded in a vault whose shares are not at par.
C14_Witness ==
    /\ last.op \in {"deposit", "deposit_with_token"} /\ last.err = ""
    /\ state.total_shares > 0
    /\ state.total_value # state.total_shares

\* C15: a successful withdraw(depositor, shares) transfers the amount it
\* returns, in the exit asset, from the vault to the depositor, takes shares
\* from total_shares and from the depositor's position, takes the amount paid
\* from total_value, and removes the stored position exactly when no shares
\* are left.
C15_WithdrawAccounting ==
    \A i \in WithdrawInputs :
        LET r == withdraw(config, state, position, stake, bal, TRUE, i.oc, i.user, i.shares,
                          NoUnstake, i.outcomes)
            xlm_token == find_xlm_token(config)
            held == get_position(position, i.user)
        IN  r.err = "" =>
                /\ r.bal[xlm_token][i.user] = bal[xlm_token][i.user] + r.r1
                /\ r.bal[xlm_token][VAULT] = r.r2 - r.r1
                /\ r.state.total_shares = state.total_shares - i.shares
                /\ r.state.total_value = state.total_value - r.r1
                /\ get_position(r.position, i.user) = held - i.shares
                /\ (i.user \in DOMAIN r.position) = (held - i.shares # 0)
                /\ \A u \in Users \ {i.user} :
                        /\ get_position(r.position, u) = get_position(position, u)
                        /\ r.bal[xlm_token][u] = bal[xlm_token][u]

\* A withdrawal has just paid less than the entitlement, leaving value behind.
C15_Witness ==
    /\ last.op = "withdraw" /\ last.err = ""
    /\ state.total_value > state.total_shares

\* The shares stored for user.
SharesHeld(user) == IF user \in DOMAIN position THEN position[user] ELSE 0

\* C16: on an initialized vault withdraw(depositor, shares) fails with
\* InvalidAmount when shares <= 0 and with InsufficientShares when shares
\* exceeds the depositor's position, whatever liquidation and swaps would have
\* done, and leaves VaultState, every position, the staking entry and all
\* balances unchanged.
C16_WithdrawRejected ==
    \A i \in WithdrawInputs :
        LET r == withdraw(config, state, position, stake, bal, TRUE, i.oc, i.user, i.shares,
                          NoUnstake, i.outcomes)
        IN  (config.initialized /\ (i.shares <= 0 \/ i.shares > SharesHeld(i.user))) =>
                /\ r.err = (IF i.shares <= 0 THEN "InvalidAmount" ELSE "InsufficientShares")
                /\ r.state = state /\ r.position = position /\ r.stake = stake /\ r.bal = bal

\* A withdrawal of more shares than held has just been refused in a vault
\* that has depositors.
C16_Witness ==
    /\ last.op = "withdraw" /\ last.err = "InsufficientShares"
    /\ state.total_shares > 0

StakeWithdrawInputs ==
    [oc : OverflowChecks, user : Users, shares : Amounts, unstake : UnstakeOutcomes,
     outcomes : OutcomeVectors(Len(config.assets))]

\* C17: when the vault holds a staking position created by a successful
\* trigger_stake, a successful withdraw whose unstake call would succeed has
\* unstaked it: the stored staking position is gone afterwards.
C17_UnstakesFirst ==
    \A i \in StakeWithdrawInputs :
        LET r == withdraw(config, state, position, stake, bal, TRUE, i.oc, i.user, i.shares,
                          i.unstake, i.outcomes)
        IN  (/\ config.staking_pool_address # NoAddress
             /\ stake[STAKE_POSITION] # NoStake
             /\ i.unstake.ok
             /\ r.err = "") =>
                \A k \in StakeKeys : r.stake[k] = NoStake
\* A liquidation step of this withdraw fails: the unstake call, pool discovery
\* for a non-exit asset the vault holds, or that asset's swap.
LiquidationFails(i, unstake) ==
    \/ /\ config.staking_pool_address # NoAddress
       /\ stake[STAKE] # NoStake
       /\ ~unstake.ok
    \/ \E k \in 1..(Len(config.assets) - 1) :
          /\ config.assets[k] # find_xlm_token(config)
          /\ read_balance(bal, config.assets[k], VAULT) > 0
          /\ i.outcomes[k].kind \in {"no_pool", "fail"}

\* The unstake outcomes a withdraw can meet: the call is made only when a
\* position is stored under the key liquidate_all_positions reads.
UnstakesTried == IF stake[STAKE] # NoStake THEN UnstakeOutcomes ELSE {NoUnstake}

\* Every liquidation step of this withdraw that is attempted fails.
AllLiquidationFails(i, unstake) ==
    /\ ~unstake.ok
    /\ \A k \in 1..Len(config.assets) : i.outcomes[k].kind \in {"no_pool", "fail"}

\* C18: a withdraw of shares the depositor holds, in which the unstake call,
\* pool discovery or the swap of a non-exit asset fails, still succeeds; the
\* depositor is paid in the exit asset, no more than the vault's exit-asset
\* balance after the remaining steps, which is the balance it had when every
\* step failed.
C18_LiquidationNonFatal ==
    \A i \in WithdrawInputs, unstake \in UnstakesTried :
        LET r == withdraw(config, state, position, stake, bal, TRUE, i.oc, i.user, i.shares,
                          unstake, i.outcomes)
        IN  (/\ config.initialized
             /\ i.shares > 0 /\ i.shares <= SharesHeld(i.user)
             /\ LiquidationFails(i, unstake)) =>
                LET xlm_token == find_xlm_token(config) IN
                /\ r.err = ""
                /\ r.r1 <= r.r2
                /\ r.bal[xlm_token][i.user] = bal[xlm_token][i.user] + r.r1
                /\ r.bal[xlm_token][VAULT] = r.r2 - r.r1
                /\ AllLiquidationFails(i, unstake) => r.r2 = bal[xlm_token][VAULT]

C18_Witness ==
    /\ last.op = "withdraw" /\ last.err = ""
    /\ Len(config.assets) = 2
    /\ read_balance(bal, config.assets[1], VAULT) > 0
    /\ state.total_shares > 0
LastAsset == config.assets[Len(config.assets)]

\* C19: a successful withdraw pays the depositor in the last configured asset
\* only; of every other configured asset the vault holds, it hands either the
\* whole balance or nothing to the swap collaborator (the whole balance when a
\* pool is found and the swap goes through), and the last asset leaves the
\* vault only as the payout.
C19_ExitAssetLast ==
    \A i \in WithdrawInputs :
        LET r == withdraw(config, state, position, stake, bal, TRUE, i.oc, i.user, i.shares,
                          NoUnstake, i.outcomes)
        IN  r.err = "" =>
                /\ \A t \in Tokens \ {LastAsset} :
                      /\ r.bal[t][i.user] = bal[t][i.user]
                      /\ r.bal[t][VAULT] \in {bal[t][VAULT], 0}
                      /\ r.bal[t][AMM] = bal[t][AMM] + (bal[t][VAULT] - r.bal[t][VAULT])
                /\ \A k \in 1..Len(config.assets) :
                      LET asset == config.assets[k] IN
                      (/\ asset # LastAsset
                       /\ bal[asset][VAULT] > 0
                       /\ i.outcomes[k].kind = "ok"
                       /\ bal[LastAsset][AMM] >= i.outcomes[k].out) =>
                            r.bal[asset][VAULT] = 0
                /\ r.bal[LastAsset][i.user] = bal[LastAsset][i.user] + r.r1
                /\ r.bal[LastAsset][VAULT] = r.r2 - r.r1
                /\ r.r2 >= bal[LastAsset][VAULT]
                /\ r.bal[LastAsset][AMM] = bal[LastAsset][AMM] - (r.r2 - bal[LastAsset][VAULT])

C19_Witness ==
    /\ last.op = "withdraw" /\ last.err = ""
    /\ Len(config.assets) = 2
    /\ bal[config.assets[1]][VAULT] = 0
    /\ bal[config.assets[1]][AMM] > 2 * InitialSupply
RECURSIVE SumOf(_)
SumOf(s) == IF s = <<>> THEN 0 ELSE Head(s) + SumOf(Tail(s))

\* No balance was read, no approval or swap made, no step recorded, nothing moved.
NothingDone(r) ==
    /\ r.calls = <<>>
    /\ r.plan_steps = <<>>
    /\ r.swap_count = 0
    /\ r.current_balances = <<>>
    /\ r.bal = bal

\* C20: execute_rebalance_action, force_rebalance_to_allocation and
\* calculate_rebalance_plan reject with InvalidConfiguration, before reading a
\* balance or attempting a swap, every target vector whose length differs
\* from the asset list or whose entries sum to something other than 0 or
\* 1,000,000; [400000, 300000, 200000] is rejected and [700000, 300000] passes
\* the validation.
C20_TargetValidation ==
    /\ \A target_allocation \in TargetVectors, total_value \in TotalValues,
          oc \in OverflowChecks, outcome \in RebalanceOutcomes, custom_pools \in CustomPools :
        (\/ Len(target_allocation) # Len(config.assets)
         \/ SumOf(target_allocation) \notin {0, 1000000}) =>
            LET rule == [action |-> "rebalance", threshold |-> 0,
                         target_allocation |-> target_allocation]
                executed == execute_rebalance_action(config, bal, rule, config.assets,
                                                     total_value, oc, Uniformly(outcome))
                forced == force_rebalance_to_allocation(config, bal, custom_pools, config.assets,
                                                        target_allocation, total_value, oc,
                                                        Uniformly(outcome))
                planned == calculate_rebalance_plan(bal, custom_pools, config.assets,
                                                    target_allocation, total_value, oc)
            IN  \A r \in {executed, forced, planned} :
                    r.err = "InvalidConfiguration" /\ NothingDone(r)
    /\ validate_target_allocation(<<TOKEN_A, TOKEN_B, TOKEN_X>>, <<400000, 300000, 200000>>)
            = "InvalidConfiguration"
    /\ validate_target_allocation(<<TOKEN_A, TOKEN_B>>, <<700000, 300000>>) = ""

C20_Witness ==
    /\ last.op = "calculate_rebalance_plan" /\ last.err = "InvalidConfiguration"
    /\ Len(config.assets) = MaxAssets
    /\ bal[TOKEN_A][VAULT] > 0

ForceInputs ==
    [target_allocation : SwapTargets, total_value : SwapTotals, outcomes : RouterOutcomes,
     custom_pools : RegisteredPools]

ForceOf(i) ==
    force_rebalance_to_allocation(config, bal, i.custom_pools, config.assets,
                                  i.target_allocation, i.total_value, TRUE, i.outcomes)

\* The router swaps asked for, in the order they were asked for.
SwapCalls(calls) == SelectSeq(calls, LAMBDA call : call.op = "swap")

\* The assets the vault holds more of after the invocation than before.
Bought(r) == {t \in RebalanceTokens : r.bal[t][VAULT] > bal[t][VAULT]}

AllServed(i) == [i EXCEPT !.outcomes = Where({}, {}, Answer("ok", FALSE), Answer("ok", FALSE))]

\* What the matching loops of force_rebalance_to_allocation start from: the
\* loop constants and the state before the first pass, or an error.
ForceStart(i) ==
    LET p == target_amounts_from(bal, config.assets, i.target_allocation, i.total_value, 1,
                                 <<>>, <<>>, <<>>)
    IN  [err |-> p.err,
         c |-> [assets |-> config.assets, target_amounts |-> p.target_amounts, oc |-> TRUE,
                outcomes |-> i.outcomes, custom_pools |-> i.custom_pools],
         s |-> RebalanceResult("", bal, p.current_balances, p.calls, <<>>, 0)]

\* C22: in force_rebalance_to_allocation a failed swap is passed over: the
\* next candidate source of the same deficit is tried with both projected
\* balances as they were, the invocation succeeds whichever swaps fail, and
\* the projection ends equal to what the vault holds.
C22_FailedSwapSkipped ==
    \A i \in ForceInputs :
        LET r == ForceOf(i)
            start == ForceStart(i)
            n == Len(config.assets)
        IN
        /\ ForceOf(AllServed(i)).err = "" => r.err = ""
        /\ r.err = "" =>
            \A k \in 1..n : r.current_balances[k] = r.bal[config.assets[k]][VAULT]
        /\ (r.err = "" /\ start.err = "") =>
            \A d \in 1..n, j \in 1..n :
                LET t == force_swaps_pass(start.c, start.s, d, j) IN
                (i.outcomes[d][j].kind = "fail" /\ Len(t.s.calls) > Len(start.s.calls)) =>
                    /\ ~t.halt /\ t.i = d /\ t.j = j + 1
                    /\ t.s.current_balances = start.s.current_balances
                    /\ t.s.bal = bal
                    /\ t.s.swap_count = 0

\* The first source's swaps failed and the first deficit was bought from
\* the second source.
C22_Witness ==
    /\ last.op = "force_rebalance_to_allocation" /\ last.err = ""
    /\ config.assets = FiveAssets
    /\ bal[TOKEN_A][VAULT] = 1000
    /\ bal[TOKEN_C][VAULT] = 2030
    /\ bal[TOKEN_D][VAULT] = 1500

ActionInputs == [target_allocation : SwapTargets, total_value : SwapTotals, outcomes : PoolOutcomes]

ActionOf(i) ==
    execute_rebalance_action(config, bal,
        [action |-> "rebalance", threshold |-> 0, target_allocation |-> i.target_allocation],
        config.assets, i.total_value, TRUE, i.outcomes)

PlanInputs ==
    [target_allocation : SwapTargets, total_value : SwapTotals, custom_pools : RegisteredPools]

PlanOf(i) ==
    calculate_rebalance_plan(bal, i.custom_pools, config.assets, i.target_allocation,
                             i.total_value, TRUE)

\* The only thing that goes wrong is that pairs have no pool.
OnlyPoolsMissing(outcomes) ==
    \A i \in 1..5, j \in 1..5 : outcomes[i][j].kind \in {"ok", "no_pool"}

\* The inputs with a pool registered for every asset.
AllRegistered(i) == [i EXCEPT !.custom_pools = RebalanceTokens]

\* C23: a pair without a pool does not fail a rebalance: whenever
\* execute_rebalance_action, force_rebalance_to_allocation or
\* calculate_rebalance_plan succeeds with a pool for every pair, it succeeds
\* with pools missing.
C23_PoolNotFoundRecovered ==
    /\ \A i \in ActionInputs :
        (OnlyPoolsMissing(i.outcomes) /\ ActionOf(AllServed(i)).err = "") => ActionOf(i).err = ""
    /\ \A i \in ForceInputs :
        (OnlyPoolsMissing(i.outcomes) /\ ForceOf(AllRegistered(i)).err = "") => ForceOf(i).err = ""
    /\ \A i \in PlanInputs :
        PlanOf(AllRegistered(i)).err = "" => PlanOf(i).err = ""

NotStaked == [ok |-> FALSE, st_tokens |-> 0]

AssetIndex(asset) == CHOOSE k \in 1..Len(config.assets) : config.assets[k] = asset

\* A swap the router was asked for and failed.
FailedSwap(call, outcomes) ==
    /\ call.op = "swap"
    /\ outcomes[AssetIndex(call.to_token)][AssetIndex(call.from_token)].kind = "fail"

\* What execute_rebalance and execute_rebalance_only do in the current state.
RebalanceOf(outcomes) == execute_rebalance(config, state, stake, bal, TRUE, outcomes, NotStaked)

RebalanceOnlyOf(outcomes) == execute_rebalance_only(config, stake, bal, TRUE, outcomes)

\* The rebalance r ended with the error of a failed swap, its last call.
EndsAtFailedSwap(r, outcomes) ==
    \A k \in 1..Len(r.calls) :
        FailedSwap(r.calls[k], outcomes) => k = Len(r.calls) /\ r.err = "SwapFailed"

HasFailedSwap(r, outcomes) == \E k \in 1..Len(r.calls) : FailedSwap(r.calls[k], outcomes)

\* C24: a swap that fails in execute_rebalance_action ends the rebalance
\* with the error: it is the last call made, and force_rebalance and
\* trigger_rebalance fail with the error and leave the vault's state, with
\* last_rebalance, and the balances as they were.
C24_SwapFailurePropagated ==
    \A outcomes \in PoolOutcomes, timestamp \in Timestamps :
        /\ EndsAtFailedSwap(RebalanceOf(outcomes), outcomes)
        /\ EndsAtFailedSwap(RebalanceOnlyOf(outcomes), outcomes)
        /\ HasFailedSwap(RebalanceOf(outcomes), outcomes) =>
            LET f == force_rebalance(config, state, position, stake, bal, TRUE, outcomes,
                                     NotStaked, timestamp)
            IN  f.err = "SwapFailed" /\ f.state = state /\ f.bal = bal
        /\ HasFailedSwap(RebalanceOnlyOf(outcomes), outcomes) =>
            LET t == trigger_rebalance(config, state, position, stake, bal, TRUE, outcomes,
                                       TRUE, timestamp)
            IN  t.err = "SwapFailed" /\ t.state = state /\ t.bal = bal

\* force_rebalance failed on a swap that followed a swap that went through,
\* and the vault has not been rebalanced.
C24_Witness ==
    /\ last = [op |-> "force_rebalance", err |-> "SwapFailed"]
    /\ state.last_rebalance = 0
    /\ \E outcomes \in PoolOutcomes :
        /\ HasFailedSwap(RebalanceOf(outcomes), outcomes)
        /\ Len(SwapCalls(RebalanceOf(outcomes).calls)) > 1

\* What the vault holds of its assets, all together.
ActualTotalValue == actual_total_value_from(config, bal, 1, 0)

\* C25: a rebalance of a vault whose total value is zero completes as one
\* that finds nothing to do: force_rebalance (on the recorded total value)
\* and trigger_rebalance (on the balances held) succeed without a swap.
C25_ZeroValueCompletes ==
    \A outcomes \in PoolOutcomes, timestamp \in Timestamps :
        /\ state.total_value = 0 =>
            /\ RebalanceOf(outcomes).err = ""
            /\ SwapCalls(RebalanceOf(outcomes).calls) = <<>>
            /\ force_rebalance(config, state, position, stake, bal, TRUE, outcomes, NotStaked,
                               timestamp).err = ""
        /\ (ActualTotalValue.some /\ ActualTotalValue.v = 0) =>
            /\ RebalanceOnlyOf(outcomes).err = ""
            /\ SwapCalls(RebalanceOnlyOf(outcomes).calls) = <<>>
            /\ trigger_rebalance(config, state, position, stake, bal, TRUE, outcomes, TRUE,
                                 timestamp).err = ""

\* What the rebalance computes from its inputs before it matches assets.
Targets(i) ==
    target_amounts_from(bal, config.assets, i.target_allocation, i.total_value, 1,
                        <<>>, <<>>, <<>>)

TargetAmounts(i) == Targets(i).target_amounts

\* How much of the asset the vault is short of its target amount.
Deficit(i, asset) == TargetAmounts(i)[AssetIndex(asset)] - bal[asset][VAULT]

\* Every asset is within the threshold of its target amount.
WithinDust(i, threshold) ==
    /\ Len(i.target_allocation) = Len(config.assets)
    /\ Targets(i).err = ""
    /\ \A k \in 1..Len(config.assets) :
        Abs(TargetAmounts(i)[k] - bal[config.assets[k]][VAULT]) < threshold

\* The swaps asked for are of the threshold or more, into assets the
\* threshold or more short; none is asked for when every asset is within it.
DustRespected(i, swaps, threshold) ==
    /\ \A k \in 1..Len(swaps) :
        swaps[k].amount >= threshold /\ Deficit(i, swaps[k].to_token) >= threshold
    /\ WithinDust(i, threshold) => swaps = <<>>

\* The steps of a plan, as the swaps they ask for.
StepSwaps(plan_steps) ==
    [k \in 1..Len(plan_steps) |->
        Call("swap", plan_steps[k].from_token, plan_steps[k].to_token, plan_steps[k].amount_in,
             plan_steps[k].min_amount_out)]

\* C26: no swap is asked for or recorded with an amount below the dust
\* threshold or into an asset less than the threshold short of its target:
\* 100 in execute_rebalance_action, 1000 in force_rebalance_to_allocation
\* and calculate_rebalance_plan; with every asset within the threshold
\* there are no swaps and no steps.
C26_DustThreshold ==
    /\ \A i \in ActionInputs : DustRespected(i, SwapCalls(ActionOf(i).calls), 100)
    /\ \A i \in ForceInputs : DustRespected(i, SwapCalls(ForceOf(i).calls), 1000)
    /\ \A i \in PlanInputs : DustRespected(i, StepSwaps(PlanOf(i).plan_steps), 1000)

\* execute_rebalance_action left the asset 50 short as it was and bought
\* the 150 the next asset was short.
C26_Witness ==
    /\ last = [op |-> "execute_rebalance_action", err |-> ""]
    /\ config.assets = FiveAssets
    /\ bal[TOKEN_A][VAULT] = 950
    /\ bal[TOKEN_B][VAULT] = 1000
    /\ bal[TOKEN_E][VAULT] = 1050

\* The inputs pass the checks made before the balances are read.
Admitted(kind, i) ==
    /\ validate_target_allocation(config.assets, i.target_allocation) = ""
    /\ kind = "plan" \/ config.router_address # NoAddress
    /\ Targets(i).err = ""

\* The loop constants and the state before the first pass of the matching
\* loops of execute_rebalance_action, force_rebalance_to_allocation
\* and calculate_rebalance_plan.
LoopConstants(kind, i) ==
    [assets |-> config.assets, target_amounts |-> TargetAmounts(i), oc |-> TRUE,
     outcomes |-> IF kind = "plan" THEN Where({}, {}, Answer("ok", FALSE), Answer("ok", FALSE))
                  ELSE i.outcomes,
     custom_pools |-> IF kind = "action" THEN {} ELSE i.custom_pools]

LoopStart(i) == RebalanceResult("", bal, Targets(i).current_balances, Targets(i).calls, <<>>, 0)

Pass(kind, c, s, i, j) ==
    IF kind = "action" THEN execute_swaps_pass(c, s, i, j)
    ELSE IF kind = "force" THEN force_swaps_pass(c, s, i, j)
    ELSE plan_steps_pass(c, s, i, j)

\* One pass at deficit asset i and source j from s to n: a swap done or a
\* step recorded takes no more than the projected excess of the source,
\* leaves the source at its target or above, and moves the projection by
\* what was sent and what was received (the least accepted, in a plan);
\* anything else leaves the projection alone; no balance is read.
PassKeepsProjection(kind, c, s, n, i, j) ==
    /\ \A k \in (Len(s.calls) + 1)..Len(n.calls) : n.calls[k].op # "balance"
    /\ IF n.swap_count = s.swap_count /\ Len(n.plan_steps) = Len(s.plan_steps)
       THEN n.current_balances = s.current_balances
       ELSE LET amount_in == IF kind = "plan" THEN n.plan_steps[Len(n.plan_steps)].amount_in
                             ELSE n.calls[Len(n.calls)].amount
                received == IF kind = "plan" THEN n.plan_steps[Len(n.plan_steps)].min_amount_out
                            ELSE n.bal[c.assets[i]][VAULT] - s.bal[c.assets[i]][VAULT]
            IN  /\ amount_in <= s.current_balances[j] - c.target_amounts[j]
                /\ n.current_balances =
                      [s.current_balances EXCEPT ![j] = @ - amount_in, ![i] = @ + received]
                /\ n.current_balances[j] >= c.target_amounts[j]
                /\ kind # "plan" =>
                      n.bal[c.assets[j]][VAULT] = s.bal[c.assets[j]][VAULT] - amount_in

\* Every pass of the matching loops from (i, j) on keeps the projection.
RECURSIVE ProjectionKeptFrom(_, _, _, _, _)
ProjectionKeptFrom(kind, c, s, i, j) ==
    LET t == Pass(kind, c, s, i, j) IN
    /\ PassKeepsProjection(kind, c, s, t.s, i, j)
    /\ t.halt \/ ProjectionKeptFrom(kind, c, t.s, t.i, t.j)

ProjectionKept(kind, i) ==
    Admitted(kind, i) => ProjectionKeptFrom(kind, LoopConstants(kind, i), LoopStart(i), 1, 0)

\* The balances are read once each, before anything else, and an asset at
\* its target or above at the start is projected there at the end; after an
\* executor the projection is what the vault holds.
ReadOnce(kind, i, r) ==
    Admitted(kind, i) =>
        LET n == Len(config.assets) IN
        /\ \A k \in 1..Len(r.calls) : (r.calls[k].op = "balance") = (k <= n)
        /\ \A k \in 1..n :
            bal[config.assets[k]][VAULT] >= TargetAmounts(i)[k] =>
                r.current_balances[k] >= TargetAmounts(i)[k]
        /\ (kind # "plan" /\ r.err = "") =>
            \A k \in 1..n : r.current_balances[k] = r.bal[config.assets[k]][VAULT]

\* C27: in one rebalance each swap takes at most the source's projected
\* excess, the projection is moved by each swap (source less the amount
\* sent, destination plus the amount received) and used by the matches
\* that follow without reading a balance again, and no source is projected
\* below its target amount, however many deficits it serves.
C27_SurplusCap ==
    /\ \A i \in ActionInputs :
        ProjectionKept("action", i) /\ ReadOnce("action", i, ActionOf(i))
    /\ \A i \in ForceInputs :
        ProjectionKept("force", i) /\ ReadOnce("force", i, ForceOf(i))
    /\ \A i \in PlanInputs :
        ProjectionKept("plan", i) /\ ReadOnce("plan", i, PlanOf(i))

\* execute_rebalance_action bought four assets from the fifth, which is
\* left with its target amount and what it held beyond the total value.
C27_Witness ==
    /\ last = [op |-> "execute_rebalance_action", err |-> ""]
    /\ config.assets = FiveAssets
    /\ \A t \in {TOKEN_A, TOKEN_B, TOKEN_C, TOKEN_D} : bal[t][VAULT] = 1000
    /\ bal[TOKEN_E][VAULT] = 2000

\* What the source of step k of the plan is projected to hold beyond its
\* target amount when the step is recorded.
ExcessBefore(i, plan_steps, k) ==
    LET source == plan_steps[k].from_token
        sent == [m \in 1..(k - 1) |->
                    IF plan_steps[m].from_token = source THEN plan_steps[m].amount_in ELSE 0]
    IN  (0 - Deficit(i, source)) - SumOf(sent)

\* C28: calculate_rebalance_plan moves nothing and calls nothing but the
\* balance reads; its steps are in the order of the deficit assets,
\* total_steps is their number, and each step sends the smaller of the
\* deficit and the source's excess and accepts floor(amount_in * 95 / 100).
C28_PlanOnlyRecords ==
    \A i \in PlanInputs :
        LET r == PlanOf(i)
            plan == RebalancePlan(r.plan_steps)
        IN
        /\ r.bal = bal
        /\ \A k \in 1..Len(r.calls) : r.calls[k].op = "balance"
        /\ plan.total_steps = Len(plan.steps)
        /\ \A k \in 1..Len(plan.steps) :
            LET step == plan.steps[k]
                deficit == Deficit(i, step.to_token)
                excess == ExcessBefore(i, plan.steps, k)
            IN  /\ step.amount_in = (IF deficit < excess THEN deficit ELSE excess)
                /\ step.min_amount_out = (step.amount_in * 95) \div 100
                /\ k > 1 => AssetIndex(plan.steps[k - 1].to_token) < AssetIndex(step.to_token)

\* A plan was made whose first step is cut to the excess of its source
\* and whose second step covers a whole deficit.
C28_Witness ==
    /\ last = [op |-> "calculate_rebalance_plan", err |-> ""]
    /\ \E i \in PlanInputs :
        LET steps_recorded == PlanOf(i).plan_steps IN
        /\ Len(steps_recorded) = 2
        /\ steps_recorded[1].amount_in < Deficit(i, steps_recorded[1].to_token)
        /\ steps_recorded[2].amount_in = Deficit(i, steps_recorded[2].to_token)

\* A step, and how the router answers the swap it asks for.
StepCases == [step : StepInputs, worst : BOOLEAN, kind : {"ok", "fail"}]

StepOf(x) == execute_rebalance_step(config, bal, x.step, TRUE, Answer(x.kind, x.worst))

\* The approvals and swaps among the calls.
Spending(calls) == SelectSeq(calls, LAMBDA call : call.op \in {"approve", "swap"})

\* Each swap asked for comes right after the approval of its amount.
ApprovedFirst(calls) ==
    \A k \in 1..Len(calls) :
        calls[k].op = "swap" =>
            /\ k > 1
            /\ calls[k - 1].op = "approve"
            /\ calls[k - 1].amount = calls[k].amount
            /\ calls[k - 1].from_token = calls[k].from_token

\* What the vault has more of the bought token after the step.
Received(x, r) == r.bal[x.step.to_token][VAULT] - bal[x.step.to_token][VAULT]

\* C29 as stated: a step for more than the vault holds of from_token fails
\* with InsufficientBalance with no approval and no swap asked for;
\* otherwise the approval of amount_in comes before the swap, and a step
\* that succeeds returns what the router paid.
C29_StepValidates ==
    \A x \in StepCases :
        LET r == StepOf(x) IN
        IF bal[x.step.from_token][VAULT] < x.step.amount_in
        THEN r.err = "InsufficientBalance" /\ Spending(r.calls) = <<>> /\ r.bal = bal
        ELSE /\ ApprovedFirst(r.calls)
             /\ r.err = "" => r.amount_out = Received(x, r)

\* C29 amended: on a vault with no router the step fails with
\* InvalidConfiguration before the balance is read.  With a router, a step
\* for more than the vault holds fails with InsufficientBalance, and a step
\* for nothing or less with InvalidAmount, with no approval and no swap
\* asked for; any other step reads the balance, approves amount_in and asks
\* for the swap, in this order, and returns what the router paid, or fails
\* with the router's error.
C29_StepValidatesAmended ==
    \A x \in StepCases :
        LET r == StepOf(x)
            step == x.step
        IN
        IF config.router_address = NoAddress
        THEN r.err = "InvalidConfiguration" /\ r.calls = <<>> /\ r.bal = bal
        ELSE IF bal[step.from_token][VAULT] < step.amount_in
        THEN r.err = "InsufficientBalance" /\ Spending(r.calls) = <<>> /\ r.bal = bal
        ELSE IF step.amount_in <= 0
        THEN r.err = "InvalidAmount" /\ Spending(r.calls) = <<>> /\ r.bal = bal
        ELSE /\ r.calls = <<Call("balance", step.from_token, step.from_token, 0, 0),
                            Call("approve", step.from_token, step.from_token, step.amount_in, 0),
                            Call("swap", step.from_token, step.to_token, step.amount_in,
                                 step.min_amount_out)>>
             /\ IF x.kind = "ok"
                THEN /\ r.err = ""
                     /\ r.amount_out = (IF x.worst THEN step.min_amount_out ELSE step.amount_in)
                     /\ r.amount_out = Received(x, r)
                     /\ r.bal[step.from_token][VAULT] = bal[step.from_token][VAULT] - step.amount_in
                ELSE r.err = "SwapFailed" /\ r.bal = bal

\* A step of a plan was carried out and the router paid the least accepted.
C29_Witness ==
    /\ last = [op |-> "execute_rebalance_step", err |-> ""]
    /\ bal[TOKEN_E][VAULT] = 5000
    /\ bal[TOKEN_B][VAULT] = 950

\* A setter invoked by caller and authorized by signer fails for any caller
\* but the owner, with Unauthorized when the caller authorized it, and
\* leaves the configuration as it was; when it succeeds the configuration
\* is changed to expected.
OwnerOnly(r, signer, caller, expected) ==
    /\ caller # config.owner => r.err # "" /\ r.config = config
    /\ (caller # config.owner /\ signer = caller) => r.err = "Unauthorized"
    /\ signer # config.owner => r.err # "" /\ r.config = config
    /\ r.err # "" => r.config = config
    /\ r.err = "" => r.config = expected
    /\ (signer = config.owner /\ caller = config.owner) => r.err = ""

\* C30: set_staking_pool and set_factory fail with Unauthorized for a
\* caller that is not the owner and change nothing, set_router succeeds
\* only with the owner's authorization, and a setter that succeeds changes
\* its own reference and no other field of the configuration.
C30_OwnerOnlySetters ==
    \A signer \in Users, caller \in Users, reference \in References :
        /\ OwnerOnly(set_staking_pool(config, signer, caller, reference), signer, caller,
                     [config EXCEPT !.staking_pool_address = reference])
        /\ OwnerOnly(set_factory(config, signer, caller, reference), signer, caller,
                     [config EXCEPT !.factory_address = reference])
        /\ LET r == set_router(config, signer, reference) IN
           /\ signer # config.owner => r.err # "" /\ r.config = config
           /\ signer = config.owner =>
                r.err = "" /\ r.config = [config EXCEPT !.router_address = reference]

\* The owner has set the factory of a vault that has a staking pool, a
\* router and rules.
C30_Witness ==
    /\ last = [op |-> "set_factory", err |-> ""]
    /\ config.factory_address = AMM
    /\ config.staking_pool_address = POOL
    /\ config.router_address = AMM
    /\ config.owner = "u1"
    /\ Len(config.rules) = 2

Configurations == {Configuration(assets, <<>>, NoAddress) : assets \in AssetLists}

ZeroState == [total_shares |-> 0, total_value |-> 0, last_rebalance |-> 0]

Initialized(new_config) == initialize(config, state, new_config)

InitializeStep ==
    last'.op = "vault_initialize" =>
        /\ position' = position
        /\ last'.err # "" => config' = config /\ state' = state
        /\ last'.err = "" => ~config.initialized /\ config'.assets # <<>> /\ state' = ZeroState
        /\ config.initialized => last'.err = "AlreadyInitialized"

\* C31: the first initialize with a non-empty asset list stores the
\* configuration and a VaultState of (0, 0, 0); an empty asset list fails
\* with InvalidConfiguration; an initialize of an initialized vault fails
\* with AlreadyInitialized; a failed initialize leaves the configuration,
\* the VaultState and the share positions as they were.
C31_InitializeOnce ==
    /\ [](\A new_config \in Configurations :
            /\ config.initialized =>
                 Initialized(new_config) =
                    [err |-> "AlreadyInitialized", config |-> config, state |-> state]
            /\ (~config.initialized /\ new_config.assets = <<>>) =>
                 Initialized(new_config) =
                    [err |-> "InvalidConfiguration", config |-> config, state |-> state]
            /\ (~config.initialized /\ new_config.assets # <<>>) =>
                 Initialized(new_config) =
                    [err |-> "", config |-> new_config, state |-> ZeroState])
    /\ [][InitializeStep]_vars

\* A vault that holds a depositor's shares has refused a second initialize.
C31_Witness ==
    /\ last = [op |-> "vault_initialize", err |-> "AlreadyInitialized"]
    /\ config.initialized
    /\ state.total_shares > 0
    /\ \E u \in DOMAIN position : position[u] > 0

PoolInitialized(pair) == pool_initialize(pool, pair[1], pair[2])

PoolInitializeStep ==
    last'.op = "initialize" =>
        /\ bal' = bal /\ lp' = lp
        /\ last'.err # "" => pool.initialized /\ pool' = pool
        /\ last'.err = "" =>
             /\ ~pool.initialized
             /\ get_pool_info(pool') =
                  [err |-> "", token_a |-> pool'.token_a, token_b |-> pool'.token_b,
                   reserve_a |-> 0, reserve_b |-> 0, total_shares |-> 0]

\* C32: the pool's first initialize(token_a, token_b) stores the two asset
\* ids and sets both reserves and total_shares to 0, as get_pool_info then
\* reports; every later initialize fails with AlreadyInitialized and
\* changes nothing, so a funded pool keeps its reserves, shares and tokens.
C32_PoolInitializeOnce ==
    /\ [](\A pair \in TokenPairs :
            /\ pool.initialized =>
                 PoolInitialized(pair) = [err |-> "AlreadyInitialized", pool |-> pool]
            /\ ~pool.initialized =>
                 /\ PoolInitialized(pair).err = ""
                 /\ get_pool_info(PoolInitialized(pair).pool) =
                      [err |-> "", token_a |-> pair[1], token_b |-> pair[2],
                       reserve_a |-> 0, reserve_b |-> 0, total_shares |-> 0])
    /\ [][PoolInitializeStep]_vars

\* A funded pool has refused an initialize.
C32_Witness ==
    /\ last = [op |-> "initialize", err |-> "AlreadyInitialized"]
    /\ pool.reserve_a > 0 /\ pool.reserve_b > 0 /\ pool.total_shares > 0
    /\ get_pool_info(pool).token_a = TOKEN_A
    /\ bal[TOKEN_A][POOL] > 0

TransferInputs == [oc : OverflowChecks, from : Holders, to : Holders, amount : TokenAmounts]

TransferOf(i) == token_transfer(bal, TRUE, i.oc, TOKEN_A, i.from, i.to, i.amount)

Held(a) == bal[TOKEN_A][a]

\* The sum of the balances is the same in b and in bal: nothing differs, or
\* two balances differ by opposite amounts.
SumKept(b) ==
    LET changed == {a \in Addresses : b[TOKEN_A][a] # Held(a)} IN
    \/ changed = {}
    \/ \E x \in changed, y \in changed :
        /\ x # y /\ changed = {x, y}
        /\ ~SubOverflows(b[TOKEN_A][x], Held(x)) /\ ~SubOverflows(Held(y), b[TOKEN_A][y])
        /\ b[TOKEN_A][x] - Held(x) = Held(y) - b[TOKEN_A][y]

Moved(b, i) ==
    /\ ~SubOverflows(Held(i.from), i.amount) /\ b[TOKEN_A][i.from] = Held(i.from) - i.amount
    /\ ~AddOverflows(Held(i.to), i.amount) /\ b[TOKEN_A][i.to] = Held(i.to) + i.amount
    /\ \A a \in Addresses \ {i.from, i.to} : b[TOKEN_A][a] = Held(a)
    /\ b[TOKEN_B] = bal[TOKEN_B]
    /\ SumKept(b)

Representable(i) == ~SubOverflows(Held(i.from), i.amount) /\ ~AddOverflows(Held(i.to), i.amount)

LargeAddInputs == [oc : OverflowChecks, user : Users, a_des : LargeAmounts, b_des : LargeAmounts]

LargeAddOf(i) == add_liquidity(pool, lp, bal, TRUE, i.oc, i.user, i.a_des, i.b_des, 0, 0)

LargeRemoveInputs == [oc : OverflowChecks, user : Users, liquidity : LargeAmounts]

LargeRemoveOf(i) == remove_liquidity(pool, lp, bal, TRUE, i.oc, i.user, i.liquidity, 0, 0)

LargeSwapInputs == [oc : OverflowChecks, user : Users, token_in : Tokens, amount_in : LargeAmounts]

LargeSwapOf(i) == swap(pool, lp, bal, TRUE, i.oc, i.user, i.token_in, i.amount_in, 0)

\* x is the sum a + b, and the sum fits in an i128.
IsSum(x, a, b) == ~AddOverflows(a, b) /\ x = a + b

IsDifference(x, a, b) == ~SubOverflows(a, b) /\ x = a - b

SharesOf(l, u) == get_user_liquidity(l, u)

\* C33: in add_liquidity, remove_liquidity and swap an arithmetic result
\* that does not fit in an i128 aborts the operation with reserves,
\* total_shares and provider shares unchanged: what a successful operation
\* stores in reserve_a, reserve_b, total_shares and the provider's shares is
\* the exact sum or difference, never a wrapped-around value.
C33_OverflowAborts ==
    /\ \A i \in LargeAddInputs :
        LET r == LargeAddOf(i) IN
        IF r.err # "" THEN r.pool = pool /\ r.lp = lp
        ELSE /\ IsSum(r.pool.reserve_a, pool.reserve_a, r.r2)
             /\ IsSum(r.pool.reserve_b, pool.reserve_b, r.r3)
             /\ IsSum(r.pool.total_shares, pool.total_shares, r.r1)
             /\ IsSum(SharesOf(r.lp, i.user), SharesOf(lp, i.user), r.r1)
    /\ \A i \in LargeRemoveInputs :
        LET r == LargeRemoveOf(i) IN
        IF r.err # "" THEN r.pool = pool /\ r.lp = lp
        ELSE /\ IsDifference(r.pool.reserve_a, pool.reserve_a, r.r1)
             /\ IsDifference(r.pool.reserve_b, pool.reserve_b, r.r2)
             /\ IsDifference(r.pool.total_shares, pool.total_shares, i.liquidity)
             /\ IsDifference(SharesOf(r.lp, i.user), SharesOf(lp, i.user), i.liquidity)
    /\ \A i \in LargeSwapInputs :
        LET r == LargeSwapOf(i) IN
        IF r.err # "" THEN r.pool = pool /\ r.lp = lp
        ELSE /\ IsSum(ReserveOf(r.pool, i.token_in), ReserveOf(pool, i.token_in), i.amount_in)
             /\ IsDifference(ReserveOf(r.pool, OtherToken(i.token_in)),
                             ReserveOf(pool, OtherToken(i.token_in)), r.r1)

EstimateInputs == [from_token : PoolTokens, amount_in : {x \in RealAmounts : x > 0}]

EstimateOf(i) == calculate_real_pool_output(pool, i.from_token, i.amount_in)

\* What the pool's swap computes for the same token and amount.
PoolOutputOf(i) ==
    swap_amount_out(i.amount_in, ReserveOf(pool, i.from_token),
                    ReserveOf(pool, OtherToken(i.from_token)))

RealSwapInputs ==
    [oc : OverflowChecks, from_token : PoolTokens, to_token : PoolTokens,
     amount_in : {x \in RealAmounts : x > 0}, min_amount_out : RealMinimums]

RealSwapOf(i) ==
    swap_via_real_pool(pool, lp, bal, TRUE, i.oc, i.from_token, i.to_token, i.amount_in,
                       i.min_amount_out)

\* The pool's own swap for the vault with the same token, amount and minimum.
PoolSwapOf(i) == swap(pool, lp, bal, TRUE, i.oc, VAULT, i.from_token, i.amount_in, i.min_amount_out)

\* C35: on an initialized pool and for amount_in > 0 the estimate of
\* calculate_real_pool_output is the amount_out the pool's swap computes
\* for the same token_in and amount_in (and fails when the pool's
\* computation fails); swap_via_real_pool rejects with SlippageTooHigh,
\* before any transfer, exactly when the pool's swap would reject with
\* SlippageExceeded; and the minimum output derived from a non-negative
\* expected output is floor(expected_output * 95 / 100).
C35_EstimateAgrees ==
    pool.initialized =>
        /\ \A i \in EstimateInputs :
            LET expected_output == EstimateOf(i)
                amount_out == PoolOutputOf(i)
            IN  /\ (expected_output.err = "") = amount_out.some
                /\ expected_output.err = "" => expected_output.v = amount_out.v
                /\ (expected_output.err = "" /\ expected_output.v >= 0) =>
                     \A oc \in OverflowChecks :
                        min_amount_out_of(expected_output.v, oc) =
                            Some(FloorDiv(expected_output.v * SLIPPAGE_NUMERATOR,
                                          SLIPPAGE_DENOMINATOR))
        /\ \A i \in RealSwapInputs :
            LET r == RealSwapOf(i) IN
            /\ (r.err = "SlippageTooHigh") = (PoolSwapOf(i).err = "SlippageExceeded")
            /\ r.err = "SlippageTooHigh" => r.transfers = 0 /\ r.bal = bal

\* The vault's swap through a funded pool was carried out; a further swap
\* with a positive estimate would be refused for slippage by the client
\* and by the pool, and another would be carried out.
C35_Witness ==
    /\ last = [op |-> "swap_via_real_pool", err |-> ""]
    /\ pool.reserve_a > 1000 /\ pool.reserve_b > 0
    /\ \E i \in RealSwapInputs :
        /\ EstimateOf([from_token |-> i.from_token, amount_in |-> i.amount_in]).v > 0
        /\ i.min_amount_out > 0
        /\ RealSwapOf(i).err = "SlippageTooHigh"
        /\ PoolSwapOf(i).err = "SlippageExceeded"
    /\ \E i \in RealSwapInputs : i.min_amount_out > 0 /\ RealSwapOf(i).err = ""

VaultSwapInputs ==
    [auth : BOOLEAN, oc : OverflowChecks, from_token : PoolTokens, amount_in : {100, 500},
     min_amount_out : {0, 182}]

VaultSwapOf(i) ==
    swap_via_real_pool(pool, lp, bal, i.auth, i.oc, i.from_token, OtherToken(i.from_token),
                       i.amount_in, i.min_amount_out)

\* C38: after a successful swap_via_real_pool the vault's from_token
\* balance has decreased by exactly amount_in, its to_token balance has
\* increased by the amount_out returned, and, when the pool's token
\* balances equalled its reserves before, they equal them after.
C38_VaultDebitedOnce ==
    \A i \in VaultSwapInputs :
        LET r == VaultSwapOf(i)
            to_token == OtherToken(i.from_token)
        IN  r.err = "" =>
                /\ r.bal[i.from_token][VAULT] = bal[i.from_token][VAULT] - i.amount_in
                /\ r.bal[to_token][VAULT] = bal[to_token][VAULT] + r.out
                /\ (\A t \in PoolTokens : bal[t][POOL] = ReserveOf(pool, t)) =>
                     \A t \in PoolTokens : r.bal[t][POOL] = ReserveOf(r.pool, t)

\* Target vectors that sum to 0: no entry set, and two entries that cancel.
ZeroSumTargets ==
    {<<0, 0, 0>>, <<0, 0, 0, 0, 0>>,
     <<FULL_ALLOCATION \div 2, 0, 0 - FULL_ALLOCATION \div 2>>,
     <<FULL_ALLOCATION \div 2, 0, 0 - FULL_ALLOCATION \div 2, 0, 0>>}

ZeroSumInputs ==
    [target_allocation : ZeroSumTargets, total_value : SwapTotals, outcomes : Served,
     custom_pools : RegisteredPools]

\* C36: for every target vector that sums to 0 and passes the validation,
\* vectors whose positive and negative entries cancel included,
\* execute_rebalance_action asks for no swap and leaves every balance as it
\* was, and calculate_rebalance_plan records no step.
C36_ZeroSumNoTarget ==
    \A i \in ZeroSumInputs :
        validate_target_allocation(config.assets, i.target_allocation) = "" =>
            /\ SwapCalls(ActionOf(i).calls) = <<>>
            /\ ActionOf(i).bal = bal
            /\ PlanOf(i).plan_steps = <<>>
            /\ PlanOf(i).bal = bal

\* C37: a successful deposit of a positive amount that increases
\* total_value credits the depositor a strictly positive number of shares,
\* in every reachable vault state.
C37_DepositMintsShares ==
    \A i \in DepositInputs :
        LET r == DepositOf(i) IN
        (r.err = "" /\ i.amount > 0 /\ r.state.total_value > state.total_value) =>
            /\ r.r1 > 0
            /\ get_position(r.position, i.user) > get_position(position, i.user)

WithdrawOf(i) ==
    withdraw(config, state, position, stake, bal, TRUE, i.oc, i.user, i.shares, NoUnstake, i.outcomes)

\* C39: in every reachable vault state a successful withdraw pays at most
\* the exit-asset balance realized by the liquidation and at most the
\* entitlement floor(shares * total_value / total_shares); no withdraw fails
\* at the InsufficientBalance check that follows the payout computation;
\* total_value and total_shares are never negative.
C39_WithdrawBounded ==
    /\ state.total_value >= 0
    /\ state.total_shares >= 0
    /\ \A i \in WithdrawInputs :
        LET r == WithdrawOf(i) IN
        /\ r.err # "InsufficientBalance"
        /\ r.err = "" =>
            /\ r.r1 <= r.r2
            /\ r.r1 <= FloorDiv(i.shares * state.total_value, state.total_shares)

\* A withdraw was paid less than its entitlement: shares remain, and more
\* value than shares is left.
C39_Witness ==
    /\ last = [op |-> "withdraw", err |-> ""]
    /\ state.total_shares > 0
    /\ state.total_value > state.total_shares
    /\ \E i \in WithdrawInputs : WithdrawOf(i).err = "" /\ WithdrawOf(i).r1 < WithdrawOf(i).r2

StakeInputs ==
    [oc : OverflowChecks, staked : StakeOutcomes, timestamp : Timestamps]

StakeOf(i) ==
    trigger_stake(config, state, position, stake, bal, i.oc, i.staked, i.timestamp)

\* The receipt tokens the position reported by the getters holds, none counted as 0.
ReceiptsHeld(sk) ==
    IF has_staking_position(sk) THEN get_staking_position(sk).st_token_amount ELSE 0

\* C40: the recorded staking position tracks everything staked: a successful
\* stake action leaves a position that get_staking_position and
\* has_staking_position report, and whose st_token_amount is the amount
\* recorded before the action plus the receipt tokens the action received.
C40_PositionTracksStakes ==
    \A i \in StakeInputs :
        LET r == StakeOf(i) IN
        (r.err = "" /\ config.rules # <<>>) =>
            /\ has_staking_position(r.stake)
            /\ get_staking_position(r.stake).err = ""
            /\ ReceiptsHeld(r.stake) = ReceiptsHeld(stake) + i.staked.st_tokens
====
